---- MODULE Spec2Model ----
(***************************************************************************)
(* Title-case conversion module of the custom-modules plugin               *)
(* (TitleCaseModule, src/unnamed/part_005 lines 716-1335).                 *)
(*                                                                         *)
(* A JavaScript string is modelled as a sequence of characters, each       *)
(* character a one-element TLA+ string.  Three characters that the TLA+    *)
(* lexer does not accept are written by their code point: "U+2014" (em     *)
(* dash), "U+2013" (en dash) and "U+FB01" (the Latin small ligature fi,    *)
(* whose upper case is the two characters F I).                            *)
(***************************************************************************)
EXTENDS Naturals, Sequences, FiniteSets

(***************************************************************************)
(* String.prototype.toLowerCase / toUpperCase, character by character.     *)
(***************************************************************************)
LowerAlpha ==
    <<"a", "b", "c", "d", "e", "f", "g", "h", "i", "j", "k", "l", "m",
      "n", "o", "p", "q", "r", "s", "t", "u", "v", "w", "x", "y", "z">>

UpperAlpha ==
    <<"A", "B", "C", "D", "E", "F", "G", "H", "I", "J", "K", "L", "M",
      "N", "O", "P", "Q", "R", "S", "T", "U", "V", "W", "X", "Y", "Z">>

\* the upper case of one character: a string, since Unicode special casing
\* maps some characters to more than one (U+FB01 -> "FI")
toUpperCaseChar(c) ==
    IF \E i \in 1..26 : LowerAlpha[i] = c
    THEN <<UpperAlpha[CHOOSE i \in 1..26 : LowerAlpha[i] = c]>>
    ELSE IF c = "U+FB01" THEN <<"F", "I">> ELSE <<c>>

toLowerCaseChar(c) ==
    IF \E i \in 1..26 : UpperAlpha[i] = c
    THEN <<LowerAlpha[CHOOSE i \in 1..26 : UpperAlpha[i] = c]>>
    ELSE <<c>>

RECURSIVE toUpperCase(_)
toUpperCase(s) ==
    IF s = <<>> THEN <<>> ELSE toUpperCaseChar(Head(s)) \o toUpperCase(Tail(s))

RECURSIVE toLowerCase(_)
toLowerCase(s) ==
    IF s = <<>> THEN <<>> ELSE toLowerCaseChar(Head(s)) \o toLowerCase(Tail(s))

\* String.prototype.includes for a single character
includes(s, c) == \E i \in 1..Len(s) : s[i] = c

\* the characters the tokenizer's class [^\s\-U+2014U+2013] excludes
\* (\s is represented by the space, the tab and the line feed)
SeparatorChars == {" ", "\t", "\n", "-", "U+2014", "U+2013"}

(***************************************************************************)
(* The word lists set by the constructor.                                  *)
(***************************************************************************)
Ctor_articles ==
    {<<"a">>, <<"a", "n">>, <<"t", "h", "e">>}

Ctor_coordinatingConjunctions ==
    {<<"a", "n", "d">>, <<"b", "u", "t">>, <<"f", "o", "r">>, <<"n", "o", "r">>, <<"o", "r">>,
    <<"y", "e", "t">>, <<"s", "o">>}

Ctor_subordinatingConjunctions ==
    {<<"a", "s">>, <<"i", "f">>, <<"b", "e", "c", "a", "u", "s", "e">>, <<"w", "h", "e", "n">>,
    <<"w", "h", "e", "n", "e", "v", "e", "r">>, <<"w", "h", "i", "l", "e">>,
    <<"w", "h", "e", "r", "e">>, <<"w", "h", "e", "r", "e", "a", "s">>,
    <<"a", "l", "t", "h", "o", "u", "g", "h">>, <<"t", "h", "o", "u", "g", "h">>,
    <<"u", "n", "l", "e", "s", "s">>, <<"u", "n", "t", "i", "l">>, <<"s", "i", "n", "c", "e">>,
    <<"a", "f", "t", "e", "r">>, <<"b", "e", "f", "o", "r", "e">>, <<"t", "h", "a", "t">>,
    <<"w", "h", "e", "t", "h", "e", "r">>, <<"o", "n", "c", "e">>, <<"l", "e", "s", "t">>,
    <<"p", "r", "o", "v", "i", "d", "e", "d">>, <<"s", "u", "p", "p", "o", "s", "i", "n", "g">>}

Ctor_prepositions1 ==
    {<<"v">>}

Ctor_prepositions2 ==
    {<<"a", "t">>, <<"b", "y">>, <<"i", "n">>, <<"o", "f">>, <<"o", "n">>, <<"t", "o">>,
    <<"u", "p">>}

Ctor_prepositions3 ==
    {<<"f", "o", "r">>, <<"o", "f", "f">>, <<"o", "u", "t">>, <<"v", "i", "a">>,
    <<"p", "e", "r">>, <<"p", "r", "o">>, <<"b", "a", "r">>, <<"q", "u", "a">>,
    <<"m", "i", "d">>}

Ctor_prepositions4 ==
    {<<"f", "r", "o", "m">>, <<"i", "n", "t", "o">>, <<"u", "n", "t", "o">>,
    <<"w", "i", "t", "h">>, <<"a", "m", "i", "d">>, <<"a", "t", "o", "p">>,
    <<"d", "o", "w", "n">>, <<"l", "i", "k", "e">>, <<"n", "e", "a", "r">>,
    <<"n", "e", "x", "t">>, <<"o", "v", "e", "r">>, <<"p", "a", "s", "t">>,
    <<"p", "l", "u", "s">>, <<"s", "a", "n", "s">>, <<"s", "a", "v", "e">>,
    <<"t", "h", "a", "n">>, <<"t", "h", "r", "u">>}

Ctor_prepositions5Plus ==
    {<<"a", "b", "o", "u", "t">>, <<"a", "b", "o", "v", "e">>, <<"a", "c", "r", "o", "s", "s">>,
    <<"a", "f", "t", "e", "r">>, <<"a", "g", "a", "i", "n", "s", "t">>,
    <<"a", "l", "o", "n", "g">>, <<"a", "m", "o", "n", "g">>, <<"a", "r", "o", "u", "n", "d">>,
    <<"b", "e", "f", "o", "r", "e">>, <<"b", "e", "h", "i", "n", "d">>,
    <<"b", "e", "l", "o", "w">>, <<"b", "e", "n", "e", "a", "t", "h">>,
    <<"b", "e", "s", "i", "d", "e">>, <<"b", "e", "s", "i", "d", "e", "s">>,
    <<"b", "e", "t", "w", "e", "e", "n">>, <<"b", "e", "y", "o", "n", "d">>,
    <<"d", "u", "r", "i", "n", "g">>, <<"e", "x", "c", "e", "p", "t">>,
    <<"i", "n", "s", "i", "d", "e">>, <<"o", "u", "t", "s", "i", "d", "e">>,
    <<"t", "h", "r", "o", "u", "g", "h">>,
    <<"t", "h", "r", "o", "u", "g", "h", "o", "u", "t">>, <<"t", "o", "w", "a", "r", "d">>,
    <<"t", "o", "w", "a", "r", "d", "s">>, <<"u", "n", "d", "e", "r">>,
    <<"u", "n", "d", "e", "r", "n", "e", "a", "t", "h">>, <<"u", "n", "l", "i", "k", "e">>,
    <<"u", "n", "t", "i", "l">>, <<"w", "i", "t", "h", "i", "n">>,
    <<"w", "i", "t", "h", "o", "u", "t">>, <<"a", "b", "o", "a", "r", "d">>,
    <<"a", "b", "s", "e", "n", "t">>, <<"a", "c", "c", "o", "r", "d", "i", "n", "g">>,
    <<"a", "l", "o", "n", "g", "s", "i", "d", "e">>, <<"a", "m", "i", "d", "s", "t">>,
    <<"a", "m", "o", "n", "g", "s", "t">>, <<"a", "s", "l", "a", "n", "t">>,
    <<"a", "s", "t", "r", "i", "d", "e">>, <<"b", "a", "r", "r", "i", "n", "g">>,
    <<"b", "e", "t", "w", "i", "x", "t">>, <<"c", "i", "r", "c", "a">>,
    <<"c", "o", "n", "c", "e", "r", "n", "i", "n", "g">>,
    <<"c", "o", "n", "s", "i", "d", "e", "r", "i", "n", "g">>,
    <<"d", "e", "s", "p", "i", "t", "e">>, <<"e", "x", "c", "l", "u", "d", "i", "n", "g">>,
    <<"f", "a", "i", "l", "i", "n", "g">>, <<"f", "o", "l", "l", "o", "w", "i", "n", "g">>,
    <<"g", "i", "v", "e", "n">>, <<"i", "n", "c", "l", "u", "d", "i", "n", "g">>,
    <<"n", "o", "t", "w", "i", "t", "h", "s", "t", "a", "n", "d", "i", "n", "g">>,
    <<"o", "p", "p", "o", "s", "i", "t", "e">>, <<"p", "e", "n", "d", "i", "n", "g">>,
    <<"r", "e", "g", "a", "r", "d", "i", "n", "g">>,
    <<"r", "e", "s", "p", "e", "c", "t", "i", "n", "g">>, <<"r", "o", "u", "n", "d">>,
    <<"s", "a", "v", "i", "n", "g">>, <<"t", "o", "u", "c", "h", "i", "n", "g">>,
    <<"v", "e", "r", "s", "u", "s">>}

Ctor_nytLowercaseWords ==
    {<<"a">>, <<"a", "n", "d">>, <<"a", "s">>, <<"a", "t">>, <<"b", "u", "t">>, <<"b", "y">>,
    <<"e", "n">>, <<"f", "o", "r">>, <<"i", "f">>, <<"i", "n">>, <<"o", "f">>, <<"o", "n">>,
    <<"o", "r">>, <<"t", "h", "e">>, <<"t", "o">>, <<"v", ".">>, <<"v", "s", ".">>,
    <<"v", "i", "a">>}

Ctor_nytCapitalizeWords ==
    {<<"n", "o">>, <<"n", "o", "r">>, <<"n", "o", "t">>, <<"o", "f", "f">>, <<"o", "u", "t">>,
    <<"s", "o">>, <<"u", "p">>}

ConstructorWordLists ==
    [articles |-> Ctor_articles,
     coordinatingConjunctions |-> Ctor_coordinatingConjunctions,
     subordinatingConjunctions |-> Ctor_subordinatingConjunctions,
     prepositions1 |-> Ctor_prepositions1,
     prepositions2 |-> Ctor_prepositions2,
     prepositions3 |-> Ctor_prepositions3,
     prepositions4 |-> Ctor_prepositions4,
     prepositions5Plus |-> Ctor_prepositions5Plus,
     nytLowercaseWords |-> Ctor_nytLowercaseWords,
     nytCapitalizeWords |-> Ctor_nytCapitalizeWords]

KnownStyles ==
    {"AMA", "AP", "APA", "Bluebook", "Chicago", "MLA", "New York Times", "Wikipedia"}

(***************************************************************************)
(* State: the fields of the TitleCaseModule object.                        *)
(***************************************************************************)
VARIABLES
    styleGuide,    \* this.styleGuide
    nlp,           \* this.nlp: "null" or "compromise"
    wordLists      \* this.articles ... this.nytCapitalizeWords

articles == wordLists.articles
coordinatingConjunctions == wordLists.coordinatingConjunctions
subordinatingConjunctions == wordLists.subordinatingConjunctions
prepositions1 == wordLists.prepositions1
prepositions2 == wordLists.prepositions2
prepositions3 == wordLists.prepositions3
prepositions4 == wordLists.prepositions4
prepositions5Plus == wordLists.prepositions5Plus
nytLowercaseWords == wordLists.nytLowercaseWords
nytCapitalizeWords == wordLists.nytCapitalizeWords

(***************************************************************************)
(* Casing primitives and the per-style rule functions.                     *)
(***************************************************************************)
capitalize(word) ==
    IF word = <<>> THEN word
    ELSE toUpperCase(<<word[1]>>) \o toLowerCase(Tail(word))

isPreposition(lowerWord) ==
    \/ lowerWord \in prepositions1
    \/ lowerWord \in prepositions2
    \/ lowerWord \in prepositions3
    \/ lowerWord \in prepositions4
    \/ lowerWord \in prepositions5Plus

\* mutant: the two length thresholds exchanged
applyPrepositionRules_thresholdsSwapped(word, lowerWord, style) ==
    LET length == Len(word) IN
    CASE style \in {"AMA", "AP", "APA"} ->
            IF length <= 4 THEN lowerWord ELSE capitalize(word)
      [] style \in {"Bluebook", "Chicago", "Wikipedia"} ->
            IF length <= 3 THEN lowerWord ELSE capitalize(word)
      [] style = "MLA" -> lowerWord
      [] style = "New York Times" ->
            IF lowerWord \in nytLowercaseWords THEN lowerWord
            ELSE IF lowerWord \in nytCapitalizeWords THEN capitalize(word)
            ELSE IF length >= 4 THEN capitalize(word) ELSE lowerWord
      [] OTHER -> capitalize(word)

applyPrepositionRules(word, lowerWord, style) ==
    LET length == Len(word) IN
    CASE style \in {"AMA", "AP", "APA"} ->
            IF length <= 3 THEN lowerWord ELSE capitalize(word)
      [] style \in {"Bluebook", "Chicago", "Wikipedia"} ->
            IF length <= 4 THEN lowerWord ELSE capitalize(word)
      [] style = "MLA" -> lowerWord
      [] style = "New York Times" ->
            IF lowerWord \in nytLowercaseWords THEN lowerWord
            ELSE IF lowerWord \in nytCapitalizeWords THEN capitalize(word)
            ELSE IF length >= 4 THEN capitalize(word) ELSE lowerWord
      [] OTHER -> capitalize(word)

\* mutant: the static AMA rule lowercases prepositions of up to 4 letters
applyAMARules_prepositionsUpTo4(word, lowerWord) ==
    IF lowerWord \in articles THEN lowerWord
    ELSE IF lowerWord \in coordinatingConjunctions THEN lowerWord
    ELSE IF isPreposition(lowerWord) /\ Len(word) <= 4 THEN lowerWord
    ELSE IF lowerWord = <<"t", "o">> THEN lowerWord
    ELSE capitalize(word)

applyAMARules(word, lowerWord) ==
    IF lowerWord \in articles THEN lowerWord
    ELSE IF lowerWord \in coordinatingConjunctions THEN lowerWord
    ELSE IF isPreposition(lowerWord) /\ Len(word) <= 3 THEN lowerWord
    ELSE IF lowerWord = <<"t", "o">> THEN lowerWord
    ELSE capitalize(word)

\* mutant: "to" is not excepted from the short prepositions
applyAPRules_lowercasesTo(word, lowerWord) ==
    IF Len(word) >= 4 THEN capitalize(word)
    ELSE IF lowerWord \in articles THEN lowerWord
    ELSE IF lowerWord \in coordinatingConjunctions /\ Len(word) <= 3 THEN lowerWord
    ELSE IF lowerWord \in subordinatingConjunctions /\ Len(word) <= 3 THEN lowerWord
    ELSE IF isPreposition(lowerWord) /\ Len(word) <= 3 THEN lowerWord
    ELSE capitalize(word)

applyAPRules(word, lowerWord) ==
    IF Len(word) >= 4 THEN capitalize(word)
    ELSE IF lowerWord \in articles THEN lowerWord
    ELSE IF lowerWord \in coordinatingConjunctions /\ Len(word) <= 3 THEN lowerWord
    ELSE IF lowerWord \in subordinatingConjunctions /\ Len(word) <= 3 THEN lowerWord
    ELSE IF isPreposition(lowerWord) /\ Len(word) <= 3 /\ lowerWord # <<"t", "o">>
         THEN lowerWord
    ELSE capitalize(word)

applyAPARules(word, lowerWord) ==
    IF Len(word) >= 4 THEN capitalize(word)
    ELSE IF lowerWord \in articles THEN lowerWord
    ELSE IF lowerWord \in coordinatingConjunctions THEN lowerWord
    ELSE IF lowerWord \in subordinatingConjunctions /\ Len(word) <= 3 THEN lowerWord
    ELSE IF isPreposition(lowerWord) /\ Len(word) <= 3 THEN lowerWord
    ELSE capitalize(word)

\* mutant: "as" is always lowercased, as under Chicago
applyBluebookRules_lowercasesAs(word, lowerWord) ==
    IF lowerWord \in articles THEN lowerWord
    ELSE IF lowerWord \in coordinatingConjunctions THEN lowerWord
    ELSE IF lowerWord = <<"a", "s">> THEN lowerWord
    ELSE IF isPreposition(lowerWord) /\ Len(word) <= 4 THEN lowerWord
    ELSE capitalize(word)

applyBluebookRules(word, lowerWord) ==
    IF lowerWord \in articles THEN lowerWord
    ELSE IF lowerWord \in coordinatingConjunctions THEN lowerWord
    ELSE IF isPreposition(lowerWord) /\ Len(word) <= 4 THEN lowerWord
    ELSE capitalize(word)

\* mutant: every coordinating conjunction is lowercased, "yet" and "so" too
applyChicagoRules_allCoordinating(word, lowerWord) ==
    IF lowerWord \in articles THEN lowerWord
    ELSE IF lowerWord \in coordinatingConjunctions THEN lowerWord
    ELSE IF lowerWord = <<"a", "s">> THEN lowerWord
    ELSE IF lowerWord = <<"t", "o">> THEN lowerWord
    ELSE IF isPreposition(lowerWord) /\ Len(word) <= 4 THEN lowerWord
    ELSE capitalize(word)

applyChicagoRules(word, lowerWord) ==
    IF lowerWord \in articles THEN lowerWord
    ELSE IF lowerWord \in {<<"a", "n", "d">>, <<"b", "u", "t">>, <<"f", "o", "r">>,
                           <<"n", "o", "r">>, <<"o", "r">>} THEN lowerWord
    ELSE IF lowerWord = <<"a", "s">> THEN lowerWord
    ELSE IF lowerWord = <<"t", "o">> THEN lowerWord
    ELSE IF isPreposition(lowerWord) /\ Len(word) <= 4 THEN lowerWord
    ELSE capitalize(word)

\* mutant: only prepositions of at most 4 letters are lowercased
applyMLARules_prepositionsUpTo4(word, lowerWord) ==
    IF lowerWord \in articles THEN lowerWord
    ELSE IF lowerWord \in coordinatingConjunctions THEN lowerWord
    ELSE IF isPreposition(lowerWord) /\ Len(word) <= 4 THEN lowerWord
    ELSE IF lowerWord = <<"t", "o">> THEN lowerWord
    ELSE capitalize(word)

applyMLARules(word, lowerWord) ==
    IF lowerWord \in articles THEN lowerWord
    ELSE IF lowerWord \in coordinatingConjunctions THEN lowerWord
    ELSE IF isPreposition(lowerWord) THEN lowerWord
    ELSE IF lowerWord = <<"t", "o">> THEN lowerWord
    ELSE capitalize(word)

\* mutant: a short word on neither list is lowercased, as applyPrepositionRules
\* does
applyNYTRules_shortLowercased(word, lowerWord) ==
    IF Len(word) >= 4 THEN capitalize(word)
    ELSE IF lowerWord \in nytCapitalizeWords THEN capitalize(word)
    ELSE IF lowerWord \in nytLowercaseWords THEN lowerWord
    ELSE IF lowerWord = <<"v", ".">> \/ lowerWord = <<"v", "s", ".">> THEN lowerWord
    ELSE lowerWord

applyNYTRules(word, lowerWord) ==
    IF Len(word) >= 4 THEN capitalize(word)
    ELSE IF lowerWord \in nytCapitalizeWords THEN capitalize(word)
    ELSE IF lowerWord \in nytLowercaseWords THEN lowerWord
    ELSE IF lowerWord = <<"v", ".">> \/ lowerWord = <<"v", "s", ".">> THEN lowerWord
    ELSE capitalize(word)

applyWikipediaRules(word, lowerWord) ==
    IF lowerWord \in articles THEN lowerWord
    ELSE IF lowerWord \in coordinatingConjunctions THEN lowerWord
    ELSE IF isPreposition(lowerWord) /\ Len(word) <= 4 THEN lowerWord
    ELSE IF lowerWord = <<"t", "o">> THEN lowerWord
    ELSE capitalize(word)

\* String.prototype.split('-')
RECURSIVE split(_)
split(word) ==
    IF ~includes(word, "-") THEN <<word>>
    ELSE LET i == CHOOSE k \in 1..Len(word) :
                      word[k] = "-" /\ \A j \in 1..(k - 1) : word[j] # "-"
         IN  <<SubSeq(word, 1, i - 1)>> \o split(SubSeq(word, i + 1, Len(word)))

\* Array.prototype.join('-')
RECURSIVE join(_)
join(parts) ==
    IF parts = <<>> THEN <<>>
    ELSE IF Len(parts) = 1 THEN parts[1]
    ELSE parts[1] \o <<"-">> \o join(Tail(parts))

\* mutant: under Chicago only a preposition of at most 4 letters is lowercased
handleHyphenatedPart_chicagoShortPrepositions(part, index, isFirst, style) ==
    LET lowerPart == toLowerCase(part) IN
    IF index = 0 /\ isFirst THEN capitalize(part)
    ELSE CASE style = "AMA" -> capitalize(part)
           [] style = "Chicago" ->
                 IF index = 0 THEN capitalize(part)
                 ELSE IF lowerPart \in articles THEN lowerPart
                 ELSE IF lowerPart \in coordinatingConjunctions THEN lowerPart
                 ELSE IF isPreposition(lowerPart) /\ Len(lowerPart) <= 4 THEN lowerPart
                 ELSE capitalize(part)
           [] style = "APA" -> capitalize(part)
           [] style = "MLA" ->
                 IF lowerPart \in articles THEN lowerPart
                 ELSE IF lowerPart \in coordinatingConjunctions THEN lowerPart
                 ELSE IF isPreposition(lowerPart) THEN lowerPart
                 ELSE capitalize(part)
           [] OTHER -> capitalize(part)

handleHyphenatedPart(part, index, isFirst, style) ==
    LET lowerPart == toLowerCase(part) IN
    IF index = 0 /\ isFirst THEN capitalize(part)
    ELSE CASE style = "AMA" -> capitalize(part)
           [] style = "Chicago" ->
                 IF index = 0 THEN capitalize(part)
                 ELSE IF lowerPart \in articles THEN lowerPart
                 ELSE IF lowerPart \in coordinatingConjunctions THEN lowerPart
                 ELSE IF isPreposition(lowerPart) THEN lowerPart
                 ELSE capitalize(part)
           [] style = "APA" -> capitalize(part)
           [] style = "MLA" ->
                 IF lowerPart \in articles THEN lowerPart
                 ELSE IF lowerPart \in coordinatingConjunctions THEN lowerPart
                 ELSE IF isPreposition(lowerPart) THEN lowerPart
                 ELSE capitalize(part)
           [] OTHER -> capitalize(part)

handleHyphenatedWord(word, isFirst, isLast, style) ==
    LET parts == split(word)
        capitalizedParts ==
            [i \in 1..Len(parts) |-> handleHyphenatedPart(parts[i], i - 1, isFirst, style)]
    IN  join(capitalizedParts)

\* applyNLPAwareRules' null: no verdict.  No word equals it, since "null" is
\* not a character.
NoVerdict == <<"null">>

\* mutant: "adverb" missing from the functions that are always capitalized
applyNLPAwareRules_adverbUndecided(word, lowerWord, grammaticalFunction, posTag, style) ==
    IF grammaticalFunction \in {"verb", "noun", "adjective", "pronoun"}
    THEN capitalize(word)
    ELSE IF grammaticalFunction = "article" THEN lowerWord
    ELSE IF grammaticalFunction = "infinitive"
    THEN (IF style = "AP" THEN capitalize(word) ELSE lowerWord)
    ELSE IF grammaticalFunction = "conjunction" /\ lowerWord \in coordinatingConjunctions
    THEN (IF style = "Chicago" /\ lowerWord \in {<<"y", "e", "t">>, <<"s", "o">>}
          THEN capitalize(word)
          ELSE IF style = "New York Times" /\ lowerWord \in {<<"s", "o">>, <<"n", "o", "r">>}
          THEN capitalize(word)
          ELSE lowerWord)
    ELSE IF grammaticalFunction = "conjunction" /\ lowerWord \in subordinatingConjunctions
    THEN (IF style \in {"AMA", "Bluebook", "Chicago", "MLA", "Wikipedia"}
          THEN (IF style = "Chicago" /\ lowerWord = <<"a", "s">>
                THEN lowerWord ELSE capitalize(word))
          ELSE IF style \in {"AP", "APA", "New York Times"} /\ Len(word) <= 3
          THEN lowerWord
          ELSE capitalize(word))
    ELSE IF grammaticalFunction = "preposition"
    THEN applyPrepositionRules(word, lowerWord, style)
    ELSE NoVerdict

\* mutant: the Chicago exception for "as" is missing
applyNLPAwareRules_chicagoCapitalizesAs(word, lowerWord, grammaticalFunction, posTag, style) ==
    IF grammaticalFunction \in {"verb", "noun", "adjective", "adverb", "pronoun"}
    THEN capitalize(word)
    ELSE IF grammaticalFunction = "article" THEN lowerWord
    ELSE IF grammaticalFunction = "infinitive"
    THEN (IF style = "AP" THEN capitalize(word) ELSE lowerWord)
    ELSE IF grammaticalFunction = "conjunction" /\ lowerWord \in coordinatingConjunctions
    THEN (IF style = "Chicago" /\ lowerWord \in {<<"y", "e", "t">>, <<"s", "o">>}
          THEN capitalize(word)
          ELSE IF style = "New York Times" /\ lowerWord \in {<<"s", "o">>, <<"n", "o", "r">>}
          THEN capitalize(word)
          ELSE lowerWord)
    ELSE IF grammaticalFunction = "conjunction" /\ lowerWord \in subordinatingConjunctions
    THEN (IF style \in {"AMA", "Bluebook", "Chicago", "MLA", "Wikipedia"}
          THEN capitalize(word)
          ELSE IF style \in {"AP", "APA", "New York Times"} /\ Len(word) <= 3
          THEN lowerWord
          ELSE capitalize(word))
    ELSE IF grammaticalFunction = "preposition"
    THEN applyPrepositionRules(word, lowerWord, style)
    ELSE NoVerdict

applyNLPAwareRules(word, lowerWord, grammaticalFunction, posTag, style) ==
    IF grammaticalFunction \in {"verb", "noun", "adjective", "adverb", "pronoun"}
    THEN capitalize(word)
    ELSE IF grammaticalFunction = "article" THEN lowerWord
    ELSE IF grammaticalFunction = "infinitive"
    THEN (IF style = "AP" THEN capitalize(word) ELSE lowerWord)
    ELSE IF grammaticalFunction = "conjunction" /\ lowerWord \in coordinatingConjunctions
    THEN (IF style = "Chicago" /\ lowerWord \in {<<"y", "e", "t">>, <<"s", "o">>}
          THEN capitalize(word)
          ELSE IF style = "New York Times" /\ lowerWord \in {<<"s", "o">>, <<"n", "o", "r">>}
          THEN capitalize(word)
          ELSE lowerWord)
    ELSE IF grammaticalFunction = "conjunction" /\ lowerWord \in subordinatingConjunctions
    THEN (IF style \in {"AMA", "Bluebook", "Chicago", "MLA", "Wikipedia"}
          THEN (IF style = "Chicago" /\ lowerWord = <<"a", "s">>
                THEN lowerWord ELSE capitalize(word))
          ELSE IF style \in {"AP", "APA", "New York Times"} /\ Len(word) <= 3
          THEN lowerWord
          ELSE capitalize(word))
    ELSE IF grammaticalFunction = "preposition"
    THEN applyPrepositionRules(word, lowerWord, style)
    ELSE NoVerdict

\* mutant: an unknown style falls back to the Chicago rules
applyStaticRules_defaultChicago(word, lowerWord, style) ==
    CASE style = "AMA" -> applyAMARules(word, lowerWord)
      [] style = "AP" -> applyAPRules(word, lowerWord)
      [] style = "APA" -> applyAPARules(word, lowerWord)
      [] style = "Bluebook" -> applyBluebookRules(word, lowerWord)
      [] style = "MLA" -> applyMLARules(word, lowerWord)
      [] style = "New York Times" -> applyNYTRules(word, lowerWord)
      [] style = "Wikipedia" -> applyWikipediaRules(word, lowerWord)
      [] OTHER -> applyChicagoRules(word, lowerWord)

applyStaticRules(word, lowerWord, style) ==
    CASE style = "AMA" -> applyAMARules(word, lowerWord)
      [] style = "AP" -> applyAPRules(word, lowerWord)
      [] style = "APA" -> applyAPARules(word, lowerWord)
      [] style = "Bluebook" -> applyBluebookRules(word, lowerWord)
      [] style = "Chicago" -> applyChicagoRules(word, lowerWord)
      [] style = "MLA" -> applyMLARules(word, lowerWord)
      [] style = "New York Times" -> applyNYTRules(word, lowerWord)
      [] style = "Wikipedia" -> applyWikipediaRules(word, lowerWord)
      [] OTHER -> capitalize(word)

\* mutant: the first word is not forced to a capital
applyStyleRules_firstWordNotForced(word, lowerWord, isFirst, isLast, afterColon, style, grammaticalFunction, posTag) ==
    LET capitalizeLastWord == style \notin {"AMA", "APA", "Bluebook"}
        nlpResult == applyNLPAwareRules(word, lowerWord, grammaticalFunction, posTag, style)
    IN
    IF includes(word, "-") THEN handleHyphenatedWord(word, isFirst, isLast, style)
    ELSE IF isLast /\ capitalizeLastWord THEN capitalize(word)
    ELSE IF afterColon /\ style = "APA" THEN capitalize(word)
    ELSE IF grammaticalFunction # "null" /\ nlpResult # NoVerdict THEN nlpResult
    ELSE applyStaticRules(word, lowerWord, style)

\* mutant: Bluebook missing from the styles that do not force the last word
applyStyleRules_bluebookForcesLast(word, lowerWord, isFirst, isLast, afterColon, style, grammaticalFunction, posTag) ==
    LET capitalizeLastWord == style \notin {"AMA", "APA"}
        nlpResult == applyNLPAwareRules(word, lowerWord, grammaticalFunction, posTag, style)
    IN
    IF includes(word, "-") THEN handleHyphenatedWord(word, isFirst, isLast, style)
    ELSE IF isFirst THEN capitalize(word)
    ELSE IF isLast /\ capitalizeLastWord THEN capitalize(word)
    ELSE IF afterColon /\ style = "APA" THEN capitalize(word)
    ELSE IF grammaticalFunction # "null" /\ nlpResult # NoVerdict THEN nlpResult
    ELSE applyStaticRules(word, lowerWord, style)

applyStyleRules(word, lowerWord, isFirst, isLast, afterColon, style, grammaticalFunction, posTag) ==
    LET capitalizeLastWord == style \notin {"AMA", "APA", "Bluebook"}
        nlpResult == applyNLPAwareRules(word, lowerWord, grammaticalFunction, posTag, style)
    IN
    IF includes(word, "-") THEN handleHyphenatedWord(word, isFirst, isLast, style)
    ELSE IF isFirst THEN capitalize(word)
    ELSE IF isLast /\ capitalizeLastWord THEN capitalize(word)
    ELSE IF afterColon /\ style = "APA" THEN capitalize(word)
    ELSE IF grammaticalFunction # "null" /\ nlpResult # NoVerdict THEN nlpResult
    ELSE applyStaticRules(word, lowerWord, style)

(***************************************************************************)
(* The tagger (the Compromise library, loaded at run time) is outside the  *)
(* repository.  One run of it on a text is a record                        *)
(*   [throws |-> whether this.nlp(text) / terms().out('array') throws,     *)
(*    terms  |-> the terms it yields],                                     *)
(* a term being [tags |-> the tags term.has answers true for,              *)
(*               throws |-> "none", "has" (term.has throws) or             *)
(*                          "next" (term.next throws)].                    *)
(***************************************************************************)
Thrown == "thrown"

NoTerm == [tags |-> {}, throws |-> "none"]

NoRun == [throws |-> FALSE, terms |-> <<>>]

getPOSTag(term) ==
    IF term.throws = "has" THEN Thrown
    ELSE IF "Verb" \in term.tags THEN "verb"
    ELSE IF "Noun" \in term.tags THEN "noun"
    ELSE IF "Adjective" \in term.tags THEN "adjective"
    ELSE IF "Adverb" \in term.tags THEN "adverb"
    ELSE IF "Preposition" \in term.tags THEN "preposition"
    ELSE IF "Conjunction" \in term.tags THEN "conjunction"
    ELSE IF "Article" \in term.tags THEN "article"
    ELSE IF "Pronoun" \in term.tags THEN "pronoun"
    ELSE "null"

\* mutant: a single-letter 'a' that is no noun is an article whatever its tag
determineGrammaticalFunction_articleByDefault(word, term, nextTerm, posTag) ==
    LET lowerWord == toLowerCase(word)
        ambiguous == lowerWord \in
            {<<"i", "n">>, <<"o", "u", "t">>, <<"u", "p">>, <<"o", "n">>, <<"o", "f", "f">>,
             <<"d", "o", "w", "n">>, <<"b", "y">>, <<"o", "v", "e", "r">>}
    IN
    IF ambiguous /\ posTag = "adverb" THEN "adverb"
    ELSE IF ambiguous /\ posTag = "verb" THEN "verb"
    ELSE IF ambiguous /\ posTag = "preposition" THEN "preposition"
    ELSE IF ambiguous /\ "PhrasalVerb" \in term.tags THEN "adverb"
    ELSE IF lowerWord = <<"a">> /\ Len(word) = 1
            /\ (posTag = "noun" \/ "Acronym" \in term.tags) THEN "noun"
    ELSE IF lowerWord = <<"a">> /\ Len(word) = 1 THEN "article"
    ELSE IF lowerWord = <<"t", "o">> /\ term.throws = "next" THEN Thrown
    ELSE IF lowerWord = <<"t", "o">> /\ nextTerm.throws = "has" THEN Thrown
    ELSE IF lowerWord = <<"t", "o">> /\ "Verb" \in nextTerm.tags THEN "infinitive"
    ELSE IF lowerWord = <<"t", "o">> /\ posTag = "preposition" THEN "preposition"
    ELSE posTag

\* nextTerm is term.next(): the term after it, NoTerm (an empty view, which
\* has no tag) when there is none
determineGrammaticalFunction(word, term, nextTerm, posTag) ==
    LET lowerWord == toLowerCase(word)
        ambiguous == lowerWord \in
            {<<"i", "n">>, <<"o", "u", "t">>, <<"u", "p">>, <<"o", "n">>, <<"o", "f", "f">>,
             <<"d", "o", "w", "n">>, <<"b", "y">>, <<"o", "v", "e", "r">>}
    IN
    IF ambiguous /\ posTag = "adverb" THEN "adverb"
    ELSE IF ambiguous /\ posTag = "verb" THEN "verb"
    ELSE IF ambiguous /\ posTag = "preposition" THEN "preposition"
    ELSE IF ambiguous /\ "PhrasalVerb" \in term.tags THEN "adverb"
    ELSE IF lowerWord = <<"a">> /\ Len(word) = 1
            /\ (posTag = "noun" \/ "Acronym" \in term.tags) THEN "noun"
    ELSE IF lowerWord = <<"a">> /\ Len(word) = 1 /\ posTag = "article" THEN "article"
    ELSE IF lowerWord = <<"t", "o">> /\ term.throws = "next" THEN Thrown
    ELSE IF lowerWord = <<"t", "o">> /\ nextTerm.throws = "has" THEN Thrown
    ELSE IF lowerWord = <<"t", "o">> /\ "Verb" \in nextTerm.tags THEN "infinitive"
    ELSE IF lowerWord = <<"t", "o">> /\ posTag = "preposition" THEN "preposition"
    ELSE posTag

(***************************************************************************)
(* tokenize.  Indices are JavaScript's (from 0).                           *)
(***************************************************************************)
isWordChar(c) == c \notin SeparatorChars

\* the index of the first word character at or after from; Len(s) if none
RECURSIVE matchStart(_, _)
matchStart(s, from) ==
    IF from >= Len(s) THEN Len(s)
    ELSE IF isWordChar(s[from + 1]) THEN from
    ELSE matchStart(s, from + 1)

\* regex.lastIndex after a match that starts at index start
RECURSIVE matchEnd(_, _)
matchEnd(s, start) ==
    IF start >= Len(s) THEN Len(s)
    ELSE IF isWordChar(s[start + 1]) THEN matchEnd(s, start + 1)
    ELSE start

\* (text.match(regex) || []).length
RECURSIVE countMatches(_, _)
countMatches(s, from) ==
    LET start == matchStart(s, from) IN
    IF start >= Len(s) THEN 0 ELSE 1 + countMatches(s, matchEnd(s, start))

substring(s, from, to) == SubSeq(s, from + 1, to)

\* mutant: every word is classified by the tagger's first term
tagWord_firstTerm(word, nlpDocOk, nlpTerms, nlpIndex) ==
    IF nlpDocOk /\ nlpIndex < Len(nlpTerms)
    THEN LET term == nlpTerms[1]
             nextTerm == IF 1 < Len(nlpTerms) THEN nlpTerms[2] ELSE NoTerm
             tag == getPOSTag(term)
             fn == IF tag = Thrown THEN Thrown
                   ELSE determineGrammaticalFunction(word, term, nextTerm, tag)
         IN  [posTag |-> IF tag = Thrown THEN "null" ELSE tag,
              grammaticalFunction |-> IF fn = Thrown THEN "null" ELSE fn]
    ELSE [posTag |-> "null", grammaticalFunction |-> "null"]

\* mutant: when determineGrammaticalFunction throws, the word keeps the tag
\* getPOSTag found as its function
tagWord_keepsPosTag(word, nlpDocOk, nlpTerms, nlpIndex) ==
    IF nlpDocOk /\ nlpIndex < Len(nlpTerms)
    THEN LET term == nlpTerms[nlpIndex + 1]
             nextTerm == IF nlpIndex + 1 < Len(nlpTerms)
                         THEN nlpTerms[nlpIndex + 2] ELSE NoTerm
             tag == getPOSTag(term)
             fn == IF tag = Thrown THEN Thrown
                   ELSE determineGrammaticalFunction(word, term, nextTerm, tag)
         IN  [posTag |-> IF tag = Thrown THEN "null" ELSE tag,
              grammaticalFunction |-> IF tag = Thrown THEN "null"
                                      ELSE IF fn = Thrown THEN tag ELSE fn]
    ELSE [posTag |-> "null", grammaticalFunction |-> "null"]

\* the [posTag, grammaticalFunction] of the word matched while the tagger's
\* index is nlpIndex
tagWord(word, nlpDocOk, nlpTerms, nlpIndex) ==
    IF nlpDocOk /\ nlpIndex < Len(nlpTerms)
    THEN LET term == nlpTerms[nlpIndex + 1]
             nextTerm == IF nlpIndex + 1 < Len(nlpTerms)
                         THEN nlpTerms[nlpIndex + 2] ELSE NoTerm
             tag == getPOSTag(term)
             fn == IF tag = Thrown THEN Thrown
                   ELSE determineGrammaticalFunction(word, term, nextTerm, tag)
         IN  [posTag |-> IF tag = Thrown THEN "null" ELSE tag,
              grammaticalFunction |-> IF fn = Thrown THEN "null" ELSE fn]
    ELSE [posTag |-> "null", grammaticalFunction |-> "null"]

\* the while loop, and the remaining text after it
RECURSIVE tokenizeLoop(_, _, _, _, _, _, _, _, _)
tokenizeLoop(s, totalWords, nlpDocOk, nlpTerms, lastIndex, wordIndex, nlpIndex, previousWasColon, acc) ==
    LET index == matchStart(s, lastIndex) IN
    IF index >= Len(s)
    THEN IF lastIndex < Len(s)
         THEN Append(acc, [original |-> substring(s, lastIndex, Len(s)), word |-> <<>>])
         ELSE acc
    ELSE LET between == substring(s, lastIndex, index)
             acc1 == IF index > lastIndex
                     THEN Append(acc, [original |-> between, word |-> <<>>])
                     ELSE acc
             colon == IF index > lastIndex /\ includes(between, ":")
                      THEN TRUE ELSE previousWasColon
             end == matchEnd(s, index)
             match == substring(s, index, end)
             tagged == tagWord(match, nlpDocOk, nlpTerms, nlpIndex)
             used == nlpDocOk /\ nlpIndex < Len(nlpTerms)
             token == [original |-> match,
                       word |-> match,
                       isFirstWord |-> (wordIndex = 0),
                       isLastWord |-> (wordIndex + 1 = totalWords),
                       afterColon |-> colon,
                       posTag |-> tagged.posTag,
                       grammaticalFunction |-> tagged.grammaticalFunction]
         IN  tokenizeLoop(s, totalWords, nlpDocOk, nlpTerms, end, wordIndex + 1,
                          IF used THEN nlpIndex + 1 ELSE nlpIndex, FALSE,
                          Append(acc1, token))

\* tokenize(text) when this.nlp is nlpField and the tagger behaves as run
tokenize(s, nlpField, run) ==
    LET totalWords == countMatches(s, 0)
        nlpDocOk == nlpField # "null" /\ ~run.throws
        nlpTerms == IF nlpDocOk THEN run.terms ELSE <<>>
    IN  tokenizeLoop(s, totalWords, nlpDocOk, nlpTerms, 0, 0, 0, FALSE, <<>>)

\* mutant: a separator token is skipped without being pushed to result
resultOf_dropsSeparators(toks, st) ==
    [i \in 1..Len(toks) |->
        IF toks[i].word = <<>> THEN <<>>
        ELSE applyStyleRules(toks[i].word, toLowerCase(toks[i].word), toks[i].isFirstWord,
                             toks[i].isLastWord, toks[i].afterColon, st,
                             toks[i].grammaticalFunction, toks[i].posTag)]

\* the array result of toTitleCase: one string per token
resultOf(toks, st) ==
    [i \in 1..Len(toks) |->
        IF toks[i].word = <<>> THEN toks[i].original
        ELSE applyStyleRules(toks[i].word, toLowerCase(toks[i].word), toks[i].isFirstWord,
                             toks[i].isLastWord, toks[i].afterColon, st,
                             toks[i].grammaticalFunction, toks[i].posTag)]

\* Array.prototype.join('')
RECURSIVE concat(_)
concat(parts) == IF parts = <<>> THEN <<>> ELSE Head(parts) \o concat(Tail(parts))

toTitleCase(s, st, nlpField, run) == concat(resultOf(tokenize(s, nlpField, run), st))

(***************************************************************************)
(* Inputs.                                                                 *)
(***************************************************************************)
MaxLen == 3

MaxWords == 3

\* an identifier that is none of the eight styles
UnknownStyle == "Oxford"

StyleIds == KnownStyles \cup {UnknownStyle}

CharAlphabet == {"a", "A", " ", "\t", "-", ":", "U+FB01"}

\* every text of at most MaxLen characters of CharAlphabet
CharTexts == UNION {[1..n -> CharAlphabet] : n \in 0..MaxLen}

TextWords ==
    {<<"a">>, <<"T", "H", "E">>, <<"o", "f">>, <<"y", "e", "t">>,
     <<"b", "e", "y", "o", "n", "d">>, <<"M", "c", "D", ":">>}

WordSeps == {<<" ">>, <<"-">>, <<" ", "U+2014", "\t">>}

RECURSIVE joinWith(_, _)
joinWith(ws, sep) ==
    IF ws = <<>> THEN <<>>
    ELSE IF Len(ws) = 1 THEN ws[1]
    ELSE ws[1] \o sep \o joinWith(Tail(ws), sep)

\* one to MaxWords words of TextWords, one separator between them
WordTexts ==
    {joinWith(ws, sep) : ws \in UNION {[1..n -> TextWords] : n \in 1..MaxWords},
                         sep \in WordSeps}

OtherWords ==
    {<<"x">>, <<"n", "o">>, <<"n", "o", "t">>, <<"e", "n">>, <<"r", "u", "n">>,
     <<"s", "t", "a", "r", "s">>}

\* listed words in another casing, and a word with inner capitals
CasedWords ==
    {<<"A", "S">>, <<"T", "o">>, <<"F", "O", "R">>, <<"S", "o">>, <<"I", "f">>, <<"P", "E", "R">>,
     <<"O", "v", "e", "R">>, <<"U", "N", "T", "I", "L">>,
     <<"M", "c", "D", "o", "n", "a", "l", "d">>}

Vocabulary ==
    Ctor_articles \cup Ctor_coordinatingConjunctions \cup Ctor_subordinatingConjunctions
    \cup Ctor_prepositions1 \cup Ctor_prepositions2 \cup Ctor_prepositions3
    \cup Ctor_prepositions4 \cup Ctor_prepositions5Plus
    \cup Ctor_nytLowercaseWords \cup Ctor_nytCapitalizeWords \cup OtherWords
    \cup CasedWords

\* a word of the vocabulary between two other words
MiddleTexts == {<<"x", " ">> \o w \o <<" ", "x">> : w \in Vocabulary}

ColonTexts ==
    {<<"m", "i", "n", "d", ":", " ", "a", " ", "p", "r", "i", "m", "e", "r">>,
     <<"x", " ", ":", " ", "o", "f", " ", "x">>,
     <<"U+FB01", "s", "h", " ", "o", "f", " ", "U+FB01", "n">>}

\* texts of punctuation and whitespace only, and one starting with them
PunctuationTexts ==
    {<<"!", "!", "!">>, <<".", ".", ".", " ", "?">>,
     <<".", ".", ".", " ", "o", "f", " ", "x">>}

Texts == CharTexts \cup WordTexts \cup MiddleTexts \cup ColonTexts \cup PunctuationTexts

TaggedTexts ==
    {<<"a">>,
     <<"t", "o", " ", "b", "e">>,
     <<"u", "p", " ", "t", "o", " ", "x">>,
     <<"x", " ", "t", "o", " ", "r", "u", "n">>,
     <<"a", "s", " ", "i", "f", " ", "s", "o">>,
     <<"o", "f", " ", "a", " ", "t", "o">>,
     <<"x", " ", "i", "n", "-", "a">>,
     <<"y", "e", "t", " ", "x", " ", "b", "e", "y", "o", "n", "d">>}

Term(tag) == [tags |-> {tag}, throws |-> "none"]

TermChoices ==
    {Term("Noun"), Term("Verb"), Term("Preposition"), Term("Conjunction"), Term("Article"),
     NoTerm,
     [tags |-> {}, throws |-> "has"], [tags |-> {"Preposition"}, throws |-> "next"]}

\* the tags given to the middle word of a text of MiddleTexts
FocusTerms ==
    {Term("Preposition"), Term("Conjunction"), Term("Article"), Term("Verb"), Term("Noun"),
     Term("Adjective"), Term("Adverb"), Term("Pronoun"), NoTerm,
     Term("Acronym"), Term("PhrasalVerb"),
     [tags |-> {"Acronym", "Verb"}, throws |-> "none"],
     [tags |-> {"Verb", "Noun"}, throws |-> "none"]}

\* what the tagger may do on text s: fail as a whole, or yield at most as many
\* terms as s has words
Runs(s) ==
    IF s \in TaggedTexts
    THEN {[throws |-> TRUE, terms |-> <<>>]}
         \cup {[throws |-> FALSE, terms |-> ts] :
                  ts \in UNION {[1..n -> TermChoices] : n \in 0..countMatches(s, 0)}}
    ELSE {[throws |-> FALSE, terms |-> <<Term("Noun"), t, Term("Noun")>>] : t \in FocusTerms}

\* the selections tried: any text without a tagger, the tagged texts with one
Selections == IF nlp = "null" THEN Texts ELSE TaggedTexts \cup MiddleTexts

RunsOf(s) == IF nlp = "null" THEN {NoRun} ELSE Runs(s)

SavedStyles == StyleIds \cup {"null"}

(***************************************************************************)
(* The locals of the conversion that ran last, and the operations.         *)
(***************************************************************************)
VARIABLES
    op,            \* the operation whose call is recorded, "none" between calls
    text,          \* toTitleCase's argument text
    style,         \* toTitleCase's argument style
    nlpRun,        \* what the tagger did in that call
    tokens,        \* tokenize's return value
    result,        \* toTitleCase's array result
    titleCased     \* toTitleCase's return value, result.join('')

(***************************************************************************)
(* PluginModule objects, by id: the flag this.enabled of each, and the     *)
(* hooks (onEnable, onDisable) invoked on each so far, in order.  They are *)
(* the user modules; the TitleCaseModule above is followed through its own *)
(* fields, its onEnable running whenever the framework calls it.           *)
(***************************************************************************)
VARIABLES
    enabled,       \* enabled[m]: this.enabled of module m
    hooks,         \* hooks[m]: the hooks invoked on module m, oldest first
    moduleId       \* the module a recorded call was made on

(***************************************************************************)
(* The plugin: its registry and its settings (src/main.js).  A module      *)
(* instance is a number, its index in instances; a Map and a plain object  *)
(* are functions whose domain is the set of their keys.                    *)
(***************************************************************************)
VARIABLES
    instances,     \* every module instance constructed: [id, enabled]
    modules,       \* registry.modules: module id -> instance
    moduleOrder,   \* registry.moduleOrder
    settings,      \* plugin.settings: [enabledModules, moduleSettings]
    pending,       \* the async calls suspended at an await, oldest first
    rejected       \* the modules one of whose hooks ended with a rejected promise

pluginState == <<instances, modules, moduleOrder, settings, pending, rejected>>

vars ==
    <<styleGuide, nlp, wordLists, op, text, style, nlpRun, tokens, result, titleCased,
      enabled, hooks, moduleId, instances, modules, moduleOrder, settings, pending, rejected>>

\* the user modules of the repository
ModuleIds == {"example-module", "note-statistics", "source-note-sorter"}

\* calls on a module are followed until MaxHooks hooks were invoked on it
MaxHooks == 4

NoCall ==
    /\ text' = <<>>
    /\ style' = "null"
    /\ nlpRun' = NoRun
    /\ tokens' = <<>>
    /\ result' = <<>>
    /\ titleCased' = <<>>
    /\ moduleId' = "null"

\* a Map or an object with no key
Empty == [k \in {} |-> TRUE]

\* map.set(k, v) / object[k] = v, and map.delete(k)
Put(f, k, v) == [x \in DOMAIN f \cup {k} |-> IF x = k THEN v ELSE f[x]]

Delete(f, k) == [x \in DOMAIN f \ {k} |-> f[x]]

DEFAULT_SETTINGS == [enabledModules |-> Empty, moduleSettings |-> Empty]

\* the constructors
Init ==
    /\ styleGuide = "Chicago"
    /\ nlp = "null"
    /\ wordLists = ConstructorWordLists
    /\ op = "none"
    /\ text = <<>>
    /\ style = "null"
    /\ nlpRun = NoRun
    /\ tokens = <<>>
    /\ result = <<>>
    /\ titleCased = <<>>
    /\ enabled = [m \in ModuleIds |-> FALSE]
    /\ hooks = [m \in ModuleIds |-> <<>>]
    /\ moduleId = "null"
    /\ instances = <<>>
    /\ modules = Empty
    /\ moduleOrder = <<>>
    /\ settings = DEFAULT_SETTINGS
    /\ pending = <<>>
    /\ rejected = {}

\* onEnable: saved is settings.styleGuide ("null" when unset), found whether
\* the Compromise library was found, read and evaluated
onEnable(saved, found) ==
    /\ op = "none"
    /\ styleGuide' = IF saved = "null" THEN "Chicago" ELSE saved
    /\ nlp' = IF found THEN "compromise" ELSE "null"
    /\ UNCHANGED <<wordLists, op, text, style, nlpRun, tokens, result, titleCased>>
    /\ UNCHANGED <<enabled, hooks, moduleId>>
    /\ UNCHANGED pluginState

\* the style dropdown's onChange
onChange(value) ==
    /\ op = "none"
    /\ styleGuide' = value
    /\ UNCHANGED <<nlp, wordLists, op, text, style, nlpRun, tokens, result, titleCased>>
    /\ UNCHANGED <<enabled, hooks, moduleId>>
    /\ UNCHANGED pluginState

\* mutant: a failed analysis drops the tagger (this.nlp = null), as onEnable's
\* catch does
toTitleCaseCall_dropsTagger(s, st, run) ==
    /\ text' = s
    /\ style' = st
    /\ nlpRun' = run
    /\ tokens' = tokenize(s, nlp, run)
    /\ result' = resultOf(tokens', st)
    /\ titleCased' = concat(result')
    /\ nlp' = IF run.throws THEN "null" ELSE nlp
    /\ UNCHANGED <<styleGuide, wordLists, enabled, hooks, moduleId>>
    /\ UNCHANGED pluginState

\* toTitleCase(s, st), the tagger behaving as run
toTitleCaseCall(s, st, run) ==
    /\ text' = s
    /\ style' = st
    /\ nlpRun' = run
    /\ tokens' = tokenize(s, nlp, run)
    /\ result' = resultOf(tokens', st)
    /\ titleCased' = concat(result')
    /\ UNCHANGED <<styleGuide, nlp, wordLists, enabled, hooks, moduleId>>
    /\ UNCHANGED pluginState

\* convertSelectionToTitleCase: an empty selection returns at once (a step
\* that changes nothing); otherwise the selection is replaced by titleCased
convertSelectionToTitleCase(selectedText, run) ==
    /\ op = "none"
    /\ selectedText # <<>>
    /\ op' = "convertSelectionToTitleCase"
    /\ toTitleCaseCall(selectedText, styleGuide, run)

\* a call of the method toTitleCase itself
callToTitleCase(s, st) ==
    /\ op = "none"
    /\ op' = "toTitleCase"
    /\ toTitleCaseCall(s, st, NoRun)

\* the call has returned: its locals are gone
return ==
    /\ op # "none"
    /\ op' = "none"
    /\ NoCall
    /\ UNCHANGED <<styleGuide, nlp, wordLists, enabled, hooks>>
    /\ UNCHANGED pluginState

(***************************************************************************)
(* handleHyphenatedWord called with a compound word, as applyStyleRules    *)
(* calls it for a word that includes a hyphen.  The call is recorded as    *)
(* text (the word), style, the one token whose flags are the arguments     *)
(* isFirst and isLast, result (capitalizedParts) and titleCased (the       *)
(* joined compound).                                                       *)
(***************************************************************************)
MaxSegments == 3

Segments ==
    {<<"x">>, <<"t", "h", "e">>, <<"a", "n", "d">>, <<"o", "f">>, <<"O", "V", "E", "R">>,
     <<"b", "e", "y", "o", "n", "d">>, <<"A", "r", "t">>, <<>>}

\* two to MaxSegments segments joined by hyphens
HyphenatedWords == {join(ps) : ps \in UNION {[1..n -> Segments] : n \in 2..MaxSegments}}

handleHyphenatedWordCall(word, isFirst, isLast, st) ==
    /\ op' = "handleHyphenatedWord"
    /\ text' = word
    /\ style' = st
    /\ nlpRun' = NoRun
    /\ tokens' = <<[original |-> word, word |-> word, isFirstWord |-> isFirst,
                    isLastWord |-> isLast]>>
    /\ result' = [i \in 1..Len(split(word)) |->
                     handleHyphenatedPart(split(word)[i], i - 1, isFirst, st)]
    /\ titleCased' = handleHyphenatedWord(word, isFirst, isLast, st)
    /\ UNCHANGED <<styleGuide, nlp, wordLists, enabled, hooks, moduleId>>
    /\ UNCHANGED pluginState

(***************************************************************************)
(* PluginModule.enable and PluginModule.disable.  The flag is written and  *)
(* the hook invoked in one step: no await stands between the test of the   *)
(* flag and the call of the hook, and nothing follows the await.  What the *)
(* hook of a subclass does is its own; here its invocation is recorded.    *)
(***************************************************************************)
\* mutant: enable() without the test of the flag
enable_noGuard(m) ==
    /\ op = "none"
    /\ Len(hooks[m]) < MaxHooks
    /\ op' = "enable"
    /\ moduleId' = m
    /\ enabled' = [enabled EXCEPT ![m] = TRUE]
    /\ hooks' = [hooks EXCEPT ![m] = Append(@, "onEnable")]
    /\ UNCHANGED <<styleGuide, nlp, wordLists, text, style, nlpRun, tokens, result, titleCased>>
    /\ UNCHANGED pluginState

enable(m) ==
    /\ op = "none"
    /\ Len(hooks[m]) < MaxHooks
    /\ op' = "enable"
    /\ moduleId' = m
    /\ IF enabled[m]
       THEN UNCHANGED <<enabled, hooks>>
       ELSE /\ enabled' = [enabled EXCEPT ![m] = TRUE]
            /\ hooks' = [hooks EXCEPT ![m] = Append(@, "onEnable")]
    /\ UNCHANGED <<styleGuide, nlp, wordLists, text, style, nlpRun, tokens, result, titleCased>>
    /\ UNCHANGED pluginState

disable(m) ==
    /\ op = "none"
    /\ Len(hooks[m]) < MaxHooks
    /\ op' = "disable"
    /\ moduleId' = m
    /\ IF ~enabled[m]
       THEN UNCHANGED <<enabled, hooks>>
       ELSE /\ enabled' = [enabled EXCEPT ![m] = FALSE]
            /\ hooks' = [hooks EXCEPT ![m] = Append(@, "onDisable")]
    /\ UNCHANGED <<styleGuide, nlp, wordLists, text, style, nlpRun, tokens, result, titleCased>>
    /\ UNCHANGED pluginState

\* a handler starts only when none is running (op = "none"): JavaScript runs
\* one handler at a time
(***************************************************************************)
(* The registry and the settings of the plugin (src/main.js).  A call of   *)
(* an async function runs to its first await in one step and is then a     *)
(* record of pending, [kind, moduleId, hook, entries]: hook tells whether   *)
(* the awaited promise is that of a hook (onEnable, onDisable) that was     *)
(* invoked, entries is what is left of initializeModules' loop.  The        *)
(* awaited promises settle in any order.  op is the name of the call when   *)
(* the step completes it, "await" when the step suspends it, "rejected"     *)
(* when the step ends it with a rejected promise.                           *)
(***************************************************************************)
titleCaseState == <<styleGuide, nlp, wordLists, text, style, nlpRun, tokens, result, titleCased>>

\* ids of a core module and of two user modules
PluginModuleIds == {"core-title-case", "example-module", "note-statistics"}

\* id.startsWith('core-')
startsWithCore(id) == id \in {"core-title-case"}

\* the calls followed construct at most MaxInstances module instances and
\* leave at most MaxPending calls suspended at a time
MaxInstances == 3

MaxPending == 2

\* what modules.get and object[key] give for a missing key: no instance
undefined == 0

\* PluginModule.enable and PluginModule.disable up to the await of the hook,
\* on the instance m of insts
moduleEnable(insts, m) ==
    IF insts[m].enabled THEN insts ELSE [insts EXCEPT ![m].enabled = TRUE]

moduleDisable(insts, m) ==
    IF ~insts[m].enabled THEN insts ELSE [insts EXCEPT ![m].enabled = FALSE]

getModule(id) == IF id \in DOMAIN modules THEN modules[id] ELSE undefined

getAllModules == [k \in 1..Len(moduleOrder) |-> getModule(moduleOrder[k])]

\* the sequence without its k-th element
splice(seq, k) == SubSeq(seq, 1, k - 1) \o SubSeq(seq, k + 1, Len(seq))

\* Array.prototype.indexOf, from 1; 0 when x is not in seq
indexOf(seq, x) ==
    IF \E k \in 1..Len(seq) : seq[k] = x
    THEN CHOOSE k \in 1..Len(seq) : seq[k] = x /\ \A j \in 1..(k - 1) : seq[j] # x
    ELSE 0

\* registry.register(moduleClass, {id: id}) on the registry reg, a record
\* [instances, modules, moduleOrder]
registered(reg, id) ==
    [instances |-> Append(reg.instances, [id |-> id, enabled |-> FALSE]),
     modules |-> Put(reg.modules, id, Len(reg.instances) + 1),
     moduleOrder |-> Append(reg.moduleOrder, id)]

\* registry.unregister(id); the promise of disable() is dropped
unregistered(reg, id) ==
    LET module == IF id \in DOMAIN reg.modules THEN reg.modules[id] ELSE undefined
        index == indexOf(reg.moduleOrder, id)
    IN  [instances |-> IF module # undefined /\ reg.instances[module].enabled
                       THEN moduleDisable(reg.instances, module)
                       ELSE reg.instances,
         modules |-> Delete(reg.modules, id),
         moduleOrder |-> IF index > 0 THEN splice(reg.moduleOrder, index)
                         ELSE reg.moduleOrder]

\* register and unregister applied to each id of ids in turn
RECURSIVE registeredAll(_, _)
registeredAll(reg, ids) ==
    IF ids = <<>> THEN reg ELSE registeredAll(registered(reg, Head(ids)), Tail(ids))

RECURSIVE unregisteredAll(_, _)
unregisteredAll(reg, ids) ==
    IF ids = <<>> THEN reg ELSE unregisteredAll(unregistered(reg, Head(ids)), Tail(ids))

registry == [instances |-> instances, modules |-> modules, moduleOrder |-> moduleOrder]

\* the registry becomes reg
setRegistry(reg) ==
    /\ instances' = reg.instances
    /\ modules' = reg.modules
    /\ moduleOrder' = reg.moduleOrder

register(id) ==
    /\ Len(instances) < MaxInstances
    /\ setRegistry(registered(registry, id))
    /\ op' = "register"
    /\ moduleId' = id
    /\ UNCHANGED <<settings, pending, rejected, enabled, hooks, titleCaseState>>

unregister(id) ==
    /\ setRegistry(unregistered(registry, id))
    /\ op' = "unregister"
    /\ moduleId' = id
    /\ UNCHANGED <<settings, pending, rejected, enabled, hooks, titleCaseState>>

\* registry.getModule(id).enable() on a registered module; what its hook
\* does is the module's own
getModuleEnable(id) ==
    /\ getModule(id) # undefined
    /\ instances' = moduleEnable(instances, getModule(id))
    /\ op' = "enable"
    /\ moduleId' = id
    /\ UNCHANGED <<modules, moduleOrder, settings, pending, rejected>>
    /\ UNCHANGED <<enabled, hooks, titleCaseState>>

\* a call suspended at an await: [kind, moduleId, entries], entries being
\* its local entries (initializeModules) or userModuleIds (loadUserModules)
Suspended(kind, id, entries) == [kind |-> kind, moduleId |-> id, entries |-> entries]

\* settings.enabledModules[id] = value
setEnabledModule(id, value) == [settings EXCEPT !.enabledModules = Put(@, id, value)]

\* registry.enableModule(id).  With no such module the call does nothing.
\* On an enabled module enable() invokes nothing and the call goes on to
\* its assignment before any other call can run; on a disabled module the
\* flag is set, onEnable is invoked and the call is suspended until the
\* promise of the hook settles.
enableModule(id) ==
    /\ moduleId' = id
    /\ IF getModule(id) = undefined
       THEN /\ op' = "enableModule"
            /\ UNCHANGED pluginState
       ELSE IF instances[getModule(id)].enabled
       THEN /\ op' = "enableModule"
            /\ settings' = setEnabledModule(id, TRUE)
            /\ UNCHANGED <<instances, modules, moduleOrder, pending, rejected>>
       ELSE /\ Len(pending) < MaxPending
            /\ op' = "await"
            /\ instances' = moduleEnable(instances, getModule(id))
            /\ pending' = Append(pending, Suspended("enableModule", id, <<>>))
            /\ UNCHANGED <<modules, moduleOrder, settings, rejected>>
    /\ UNCHANGED <<enabled, hooks, titleCaseState>>

\* registry.disableModule(id), likewise
disableModule(id) ==
    /\ moduleId' = id
    /\ IF getModule(id) = undefined
       THEN /\ op' = "disableModule"
            /\ UNCHANGED pluginState
       ELSE IF ~instances[getModule(id)].enabled
       THEN /\ op' = "disableModule"
            /\ settings' = setEnabledModule(id, FALSE)
            /\ UNCHANGED <<instances, modules, moduleOrder, pending, rejected>>
       ELSE /\ Len(pending) < MaxPending
            /\ op' = "await"
            /\ instances' = moduleDisable(instances, getModule(id))
            /\ pending' = Append(pending, Suspended("disableModule", id, <<>>))
            /\ UNCHANGED <<modules, moduleOrder, settings, rejected>>
    /\ UNCHANGED <<enabled, hooks, titleCaseState>>

\* the promise of the hook awaited by the k-th suspended call, a call of
\* enableModule or disableModule, settles: the call goes on to its end (the
\* saveData that follows the assignment changes nothing here), or ends
\* rejected as the hook did
toggleSettles(k, outcome) ==
    LET call == pending[k] IN
    /\ call.kind \in {"enableModule", "disableModule"}
    /\ pending' = splice(pending, k)
    /\ moduleId' = call.moduleId
    /\ IF outcome = "rejected"
       THEN /\ op' = "rejected"
            /\ rejected' = rejected \cup {call.moduleId}
            /\ UNCHANGED settings
       ELSE /\ op' = call.kind
            /\ settings' = setEnabledModule(call.moduleId, call.kind = "enableModule")
            /\ UNCHANGED rejected
    /\ UNCHANGED <<instances, modules, moduleOrder, enabled, hooks, titleCaseState>>

(***************************************************************************)
(* Settings.  A settings object of a module is the set of its              *)
(* <<key, value>> pairs; what loadData() resolves to is a function on the  *)
(* keys it has (none for null).                                            *)
(***************************************************************************)
SettingsObjects == {{}, {<<"exampleValue", "a">>}, {<<"exampleValue", "b">>, <<"sortMode", "c">>}}

\* objects with a boolean for some of the ids
EnabledModulesObjects ==
    UNION {[ids -> BOOLEAN] : ids \in SUBSET PluginModuleIds}

ModuleSettingsObjects ==
    {Empty,
     [id \in {"example-module"} |-> {<<"exampleValue", "a">>}],
     [id \in {"core-title-case", "note-statistics"} |-> {}]}

SavedData ==
    {Empty}
    \cup {[enabledModules |-> em] : em \in EnabledModulesObjects}
    \cup {[enabledModules |-> em, moduleSettings |-> ms] :
             em \in EnabledModulesObjects, ms \in ModuleSettingsObjects}

\* saved data with enabledModules only
ReloadData == {[enabledModules |-> em] : em \in EnabledModulesObjects}

\* Object.assign({}, DEFAULT_SETTINGS, data)
assign(data) ==
    [k \in {"enabledModules", "moduleSettings"} |->
        IF k \in DOMAIN data THEN data[k] ELSE DEFAULT_SETTINGS[k]]

\* data is what loadData() resolves to
loadSettings(data) ==
    /\ settings' = assign(data)
    /\ op' = "loadSettings"
    /\ UNCHANGED <<instances, modules, moduleOrder, pending, rejected>>
    /\ UNCHANGED <<moduleId, enabled, hooks, titleCaseState>>

\* module.getSettings() on a module whose id is id; an object is truthy
getSettings(id) ==
    IF id \in DOMAIN settings.moduleSettings THEN settings.moduleSettings[id] ELSE {}

\* mutant: the settings of the other modules are dropped
saveSettings_replacesAll(id, s) ==
    /\ settings' = [settings EXCEPT !.moduleSettings = Put(Empty, id, s)]
    /\ op' = "saveSettings"
    /\ moduleId' = id
    /\ UNCHANGED <<instances, modules, moduleOrder, pending, rejected>>
    /\ UNCHANGED <<enabled, hooks, titleCaseState>>

\* module.saveSettings(s) on a module whose id is id
saveSettings(id, s) ==
    /\ settings' = [settings EXCEPT !.moduleSettings = Put(@, id, s)]
    /\ op' = "saveSettings"
    /\ moduleId' = id
    /\ UNCHANGED <<instances, modules, moduleOrder, pending, rejected>>
    /\ UNCHANGED <<enabled, hooks, titleCaseState>>

(***************************************************************************)
(* onload and initializeModules.  onload runs before the settings tab      *)
(* exists, so nothing interleaves with it; it leaves the callback given to *)
(* onLayoutReady pending.                                                  *)
(***************************************************************************)
\* the sequences that list each element of set S once
Orders(S) ==
    {order \in [1..Cardinality(S) -> S] :
        \A i, j \in 1..Cardinality(S) : order[i] = order[j] => i = j}

\* what loadCoreModules registers: the core module, or nothing when
\* core-modules.js is missing or fails to load
CoreModuleLists == {<<>>, <<"core-title-case">>}

\* the ids of the modules exported by the .js files of user-modules, in the
\* order adapter.list gives the files
UserModuleLists == UNION {Orders(ids) : ids \in SUBSET {"example-module", "note-statistics"}}

\* Array.from(modules.keys()).filter(id => !id.startsWith('core-')), in
\* some order
userModuleIds(reg) ==
    CHOOSE order \in Orders({id \in DOMAIN reg.modules : ~startsWithCore(id)}) : TRUE

\* the registry after loadUserModules found the modules of files
userModulesLoaded(reg, files) == registeredAll(reg, files)

onload(data, core, files) ==
    /\ instances = <<>>
    /\ pending = <<>>
    /\ Len(core) + Len(files) <= MaxInstances
    /\ settings' = assign(data)
    /\ setRegistry(userModulesLoaded(
           unregisteredAll(registeredAll(registry, core), userModuleIds(registeredAll(registry, core))),
           files))
    /\ pending' = <<Suspended("onLayoutReady", "null", <<>>)>>
    /\ op' = "onload"
    /\ UNCHANGED <<rejected, moduleId, enabled, hooks, titleCaseState>>

\* Object.entries(obj) when the keys of obj were inserted in this order
entriesOf(obj, order) == [k \in 1..Len(order) |-> <<order[k], obj[order[k]]>>]

\* mutant: isEnabled is not tested
RECURSIVE initializeLoop_ignoresIsEnabled(_, _)
initializeLoop_ignoresIsEnabled(entries, insts) ==
    IF entries = <<>>
    THEN [instances |-> insts, entries |-> <<>>, awaits |-> "null"]
    ELSE LET id == Head(entries)[1]
             module == getModule(id)
         IN  IF module = undefined \/ insts[module].enabled
             THEN initializeLoop_ignoresIsEnabled(Tail(entries), insts)
             ELSE [instances |-> moduleEnable(insts, module), entries |-> Tail(entries),
                   awaits |-> id]

\* the loop of initializeModules over entries, run until it is suspended
\* at the await of a hook (awaits: the module enabled) or ends (awaits
\* "null").  enable() on an enabled module invokes nothing, and the loop
\* goes on before any other call can run.
RECURSIVE initializeLoop(_, _)
initializeLoop(entries, insts) ==
    IF entries = <<>>
    THEN [instances |-> insts, entries |-> <<>>, awaits |-> "null"]
    ELSE LET id == Head(entries)[1]
             isEnabled == Head(entries)[2]
             module == getModule(id)
         IN  IF ~isEnabled \/ module = undefined \/ insts[module].enabled
             THEN initializeLoop(Tail(entries), insts)
             ELSE [instances |-> moduleEnable(insts, module), entries |-> Tail(entries),
                   awaits |-> id]

\* the k-th suspended call, initializeModules, goes on over entries
initializeGoesOn(k, entries) ==
    LET loop == initializeLoop(entries, instances) IN
    /\ instances' = loop.instances
    /\ moduleId' = loop.awaits
    /\ IF loop.awaits = "null"
       THEN /\ op' = "initializeModules"
            /\ pending' = splice(pending, k)
       ELSE /\ op' = "await"
            /\ pending' = [pending EXCEPT ![k] =
                              Suspended("initializeModules", loop.awaits, loop.entries)]
    /\ UNCHANGED <<modules, moduleOrder, settings, rejected, enabled, hooks, titleCaseState>>

\* the layout is ready: the callback calls initializeModules, which reads
\* Object.entries(settings.enabledModules), the keys being in this order
onLayoutReady(k, order) ==
    /\ pending[k].kind = "onLayoutReady"
    /\ initializeGoesOn(k, entriesOf(settings.enabledModules, order))

\* the promise of the hook awaited by initializeModules settles
initializeSettles(k, outcome) ==
    /\ pending[k].kind = "initializeModules"
    /\ IF outcome = "rejected"
       THEN /\ op' = "rejected"
            /\ moduleId' = pending[k].moduleId
            /\ pending' = splice(pending, k)
            /\ rejected' = rejected \cup {pending[k].moduleId}
            /\ UNCHANGED <<instances, modules, moduleOrder, settings>>
            /\ UNCHANGED <<enabled, hooks, titleCaseState>>
       ELSE initializeGoesOn(k, pending[k].entries)

\* loadUserModules called by the Reload button, up to its await of
\* adapter.list: the user modules are unregistered
loadUserModules ==
    /\ Len(pending) < MaxPending
    /\ setRegistry(unregisteredAll(registry, userModuleIds(registry)))
    /\ pending' = Append(pending, Suspended("loadUserModules", "null", userModuleIds(registry)))
    /\ op' = "await"
    /\ UNCHANGED <<settings, rejected, moduleId, enabled, hooks, titleCaseState>>

\* adapter.list settles and loadUserModules registers the modules of files
\* (none when adapter.list rejects: the error is caught)
listSettles(k, files) ==
    /\ pending[k].kind = "loadUserModules"
    /\ Len(instances) + Len(files) <= MaxInstances
    /\ setRegistry(userModulesLoaded(registry, files))
    /\ pending' = splice(pending, k)
    /\ op' = "loadUserModules"
    /\ UNCHANGED <<settings, rejected, moduleId, enabled, hooks, titleCaseState>>

Next ==
    \/ /\ op = "none"
       /\ \E saved \in SavedStyles, found \in BOOLEAN : onEnable(saved, found)
    \/ /\ op = "none"
       /\ \E value \in KnownStyles : onChange(value)
    \/ /\ op = "none"
       /\ \E selectedText \in Selections :
             \E run \in RunsOf(selectedText) :
                convertSelectionToTitleCase(selectedText, run)
    \/ return

Spec == Init /\ [][Next]_vars

\* toTitleCase as a function of its arguments, on the module as constructed
NextToTitleCase ==
    \/ /\ op = "none"
       /\ \E s \in Texts, st \in StyleIds : callToTitleCase(s, st)
    \/ return

SpecToTitleCase == Init /\ [][NextToTitleCase]_vars

\* any sequence of enable() and disable() calls on the modules
NextLifecycle ==
    \/ /\ op = "none"
       /\ \E m \in ModuleIds : enable(m)
    \/ /\ op = "none"
       /\ \E m \in ModuleIds : disable(m)
    \/ return

SpecLifecycle == Init /\ [][NextLifecycle]_vars

\* handleHyphenatedWord as a function of its arguments
NextHyphenated ==
    \/ /\ op = "none"
       /\ \E word \in HyphenatedWords, isFirst \in BOOLEAN, isLast \in BOOLEAN, st \in StyleIds :
             handleHyphenatedWordCall(word, isFirst, isLast, st)
    \/ return

SpecHyphenated == Init /\ [][NextHyphenated]_vars

\* the settings loaded, and saved by the modules
NextSettings ==
    \/ /\ op = "none"
       /\ \E data \in SavedData : loadSettings(data)
    \/ /\ op = "none"
       /\ \E id \in PluginModuleIds, s \in SettingsObjects : saveSettings(id, s)
    \/ return

SpecSettings == Init /\ [][NextSettings]_vars

\* how a promise settles
Outcomes == {"fulfilled", "rejected"}

\* any sequence of register and unregister calls, and modules enabled
NextRegistry ==
    \/ /\ op = "none"
       /\ \E id \in PluginModuleIds : register(id)
    \/ /\ op = "none"
       /\ \E id \in PluginModuleIds : unregister(id)
    \/ /\ op = "none"
       /\ \E id \in PluginModuleIds : getModuleEnable(id)
    \/ return

SpecRegistry == Init /\ [][NextRegistry]_vars

\* the modules toggled in the settings tab
ToggledIds == {"core-title-case", "example-module"}

\* the modules registered once each, then enabled and disabled through the
\* registry, the calls interleaved at their awaits
NextToggle ==
    \/ /\ op = "none"
       /\ \E id \in ToggledIds \ DOMAIN modules : register(id)
    \/ /\ op = "none"
       /\ \E id \in ToggledIds : enableModule(id)
    \/ /\ op = "none"
       /\ \E id \in ToggledIds : disableModule(id)
    \/ /\ op = "none"
       /\ \E k \in 1..Len(pending), outcome \in Outcomes : toggleSettles(k, outcome)
    \/ return

SpecToggle == Init /\ [][NextToggle]_vars

\* the plugin loaded, then its modules initialized from the settings
NextStartup ==
    \/ /\ op = "none"
       /\ \E data \in SavedData, core \in CoreModuleLists, files \in UserModuleLists :
             onload(data, core, files)
    \/ /\ op = "none"
       /\ \E k \in 1..Len(pending) :
             \E order \in Orders(DOMAIN settings.enabledModules) : onLayoutReady(k, order)
    \/ /\ op = "none"
       /\ \E k \in 1..Len(pending), outcome \in Outcomes : initializeSettles(k, outcome)
    \/ return

SpecStartup == Init /\ [][NextStartup]_vars

\* the plugin loaded and its modules initialized, and the user modules
\* reloaded from the settings tab, which can be opened once the layout is
\* ready
NextReload ==
    \/ /\ op = "none"
       /\ \E data \in ReloadData, core \in CoreModuleLists, files \in UserModuleLists :
             onload(data, core, files)
    \/ /\ op = "none"
       /\ \E k \in 1..Len(pending) :
             \E order \in Orders(DOMAIN settings.enabledModules) : onLayoutReady(k, order)
    \/ /\ op = "none"
       /\ \E k \in 1..Len(pending), outcome \in Outcomes : initializeSettles(k, outcome)
    \/ /\ op = "none"
       /\ \A k \in 1..Len(pending) : pending[k].kind # "onLayoutReady"
       /\ loadUserModules
    \/ /\ op = "none"
       /\ \E k \in 1..Len(pending), files \in UserModuleLists : listSettles(k, files)
    \/ return

SpecReload == Init /\ [][NextReload]_vars

(***************************************************************************)
(* Vocabulary of the properties.                                           *)
(***************************************************************************)
Called == op = "toTitleCase"

Converted == op = "convertSelectionToTitleCase"

\* the indices of the word tokens
WordIndexes == {i \in 1..Len(tokens) : tokens[i].word # <<>>}

FirstWordIndex == CHOOSE i \in WordIndexes : \A j \in WordIndexes : i <= j

LastWordIndex == CHOOSE i \in WordIndexes : \A j \in WordIndexes : j <= i

\* the word token before word token i
PreviousWordIndex(i) ==
    CHOOSE p \in WordIndexes : p < i /\ \A q \in WordIndexes : q < i => q <= p

\* the k-th word token is token number TokenOfWord(k)
TokenOfWord(k) ==
    CHOOSE i \in WordIndexes : Cardinality({j \in WordIndexes : j <= i}) = k

Whitespace == {" ", "\t", "\n"}

(***************************************************************************)
(* C1.  For every text and style the output of toTitleCase differs from    *)
(* the input in letter casing only: same length, every separator character *)
(* at its place, and the same text once both are lowercased.               *)
(* Refuted: the upper case of the ligature U+FB01 is the two characters FI.*)
(***************************************************************************)
C1_OnlyCasingChanges ==
    Called =>
        /\ Len(titleCased) = Len(text)
        /\ \A i \in 1..Len(text) :
              text[i] \in SeparatorChars =>
                  i <= Len(titleCased) /\ titleCased[i] = text[i]
        /\ toLowerCase(titleCased) = toLowerCase(text)

\* what does hold: the same on texts without a character whose upper case is
\* longer than one character
C1_HoldsWithoutSpecialCasing ==
    (Called /\ ~includes(text, "U+FB01")) =>
        /\ Len(titleCased) = Len(text)
        /\ \A i \in 1..Len(text) :
              text[i] \in SeparatorChars => titleCased[i] = text[i]
        /\ toLowerCase(titleCased) = toLowerCase(text)

MiddleCasing(i) ==
    applyStyleRules(tokens[i].word, toLowerCase(tokens[i].word), FALSE, FALSE,
                    tokens[i].afterColon, style, tokens[i].grammaticalFunction,
                    tokens[i].posTag)

FollowsColon(i) ==
    /\ i \in WordIndexes
    /\ i # FirstWordIndex
    /\ \E k \in PreviousWordIndex(i)..(i - 1) : includes(tokens[k].original, ":")

C4_ApaCapitalizesAfterColon ==
    Called =>
        \A i \in WordIndexes :
            FollowsColon(i) =>
                IF style = "APA"
                THEN tokens[i].afterColon /\ result[i] = capitalize(tokens[i].word)
                ELSE result[i] =
                        applyStyleRules(tokens[i].word, toLowerCase(tokens[i].word),
                                        tokens[i].isFirstWord, tokens[i].isLastWord, FALSE,
                                        style, "null", "null")

(***************************************************************************)
(* C5.  Without a tagger, converting the output of a conversion again in   *)
(* the same style returns it unchanged.                                    *)
(* Refuted by the same special casing as C1: "FIn" is recased to "Fin".    *)
(***************************************************************************)
C5_Idempotent ==
    (Called /\ style \in KnownStyles) =>
        toTitleCase(titleCased, style, "null", NoRun) = titleCased

\* what does hold: idempotence on texts without such a character
C5_HoldsWithoutSpecialCasing ==
    (Called /\ ~includes(text, "U+FB01")) =>
        toTitleCase(titleCased, style, "null", NoRun) = titleCased

(***************************************************************************)
(* C6.  tokenize("") is the empty sequence and toTitleCase("") is ""; a    *)
(* text made of whitespace only is returned unchanged, in every style.     *)
(***************************************************************************)
C6_EmptyAndWhitespace ==
    Called =>
        /\ text = <<>> => (tokens = <<>> /\ titleCased = <<>>)
        /\ (\A i \in 1..Len(text) : text[i] \in Whitespace) => titleCased = text

C6_Witness ==
    /\ Called
    /\ text = <<" ", "\t">>
    /\ titleCased = text
    /\ Len(tokens) = 1

(***************************************************************************)
(* C7.  With a style that is none of the eight (and no tagger) every word  *)
(* token, first, middle or last, is emitted as capitalize(word), whatever  *)
(* list the word is on.                                                    *)
(***************************************************************************)
C7_UnknownStyleCapitalizesAll ==
    (Called /\ style \notin KnownStyles) =>
        /\ Len(result) = Len(tokens)
        /\ \A i \in 1..Len(tokens) :
              result[i] = IF i \in WordIndexes THEN capitalize(tokens[i].word)
                          ELSE tokens[i].original
        /\ titleCased = concat(result)

\* "x of x": the middle preposition is capitalized
C7_Witness ==
    /\ Called
    /\ style = UnknownStyle
    /\ text = <<"x", " ", "o", "f", " ", "x">>
    /\ titleCased = <<"X", " ", "O", "f", " ", "X">>

(***************************************************************************)
(* C8.  A tagger failure does not abort a conversion.  If the analysis of  *)
(* the text throws, no word has a grammatical function and the output is   *)
(* that of a conversion without tagger.  If the tagger throws while one    *)
(* word is classified, that word has no function and is cased as without   *)
(* tagger, and every other word still has the function of its own term.    *)
(***************************************************************************)
\* the term of the k-th word, and the term after it
TermOf(k) == nlpRun.terms[k]

TermAfter(k) == IF k < Len(nlpRun.terms) THEN nlpRun.terms[k + 1] ELSE NoTerm

\* the tagger throws while the k-th word is classified
ThrowsAt(k) ==
    \/ TermOf(k).throws = "has"
    \/ /\ toLowerCase(tokens[TokenOfWord(k)].word) = <<"t", "o">>
       /\ (TermOf(k).throws = "next" \/ TermAfter(k).throws = "has")

\* the function named by a tag
FunctionOfTag ==
    [t \in {"Verb", "Noun", "Preposition", "Conjunction", "Article"} |->
        CASE t = "Verb" -> "verb"
          [] t = "Noun" -> "noun"
          [] t = "Preposition" -> "preposition"
          [] t = "Conjunction" -> "conjunction"
          [] t = "Article" -> "article"]

\* the array result of the same conversion without tagger
UntaggedResult == resultOf(tokenize(text, "null", NoRun), style)

C8_TaggerFailureContained ==
    (Converted /\ nlp # "null") =>
        /\ Len(result) = Len(tokens)
        /\ titleCased = concat(result)
        /\ nlpRun.throws =>
              /\ \A i \in WordIndexes : tokens[i].grammaticalFunction = "null"
              /\ titleCased = toTitleCase(text, style, "null", NoRun)
        /\ ~nlpRun.throws =>
              \A k \in 1..Cardinality(WordIndexes) :
                  LET i == TokenOfWord(k)
                      fn == tokens[i].grammaticalFunction
                  IN  IF k > Len(nlpRun.terms) THEN fn = "null"
                      ELSE IF ThrowsAt(k)
                      THEN fn = "null" /\ result[i] = UntaggedResult[i]
                      ELSE \A t \in DOMAIN FunctionOfTag :
                              TermOf(k).tags = {t} =>
                                  \/ fn = FunctionOfTag[t]
                                  \/ /\ fn = "infinitive"
                                     /\ toLowerCase(tokens[i].word) = <<"t", "o">>
                                     /\ "Verb" \in TermAfter(k).tags

\* the tagger throws on one word while another word is cased by its function
C8_Witness ==
    /\ Converted
    /\ ~nlpRun.throws
    /\ \E k \in 1..Len(nlpRun.terms) :
          /\ k <= Cardinality(WordIndexes)
          /\ ThrowsAt(k)
          /\ tokens[TokenOfWord(k)].grammaticalFunction = "null"
    /\ \E j \in WordIndexes :
          /\ tokens[j].grammaticalFunction # "null"
          /\ result[j] # UntaggedResult[j]

(***************************************************************************)
(* C9.  A conversion changes no field of the module: in every step that    *)
(* runs convertSelectionToTitleCase the word lists, styleGuide and nlp     *)
(* keep their values, and the word lists are those of the constructor, so  *)
(* the output is that of the first call with the same text and style.      *)
(***************************************************************************)
C9_ConversionKeepsModuleState ==
    [][(op = "none" /\ op' = "convertSelectionToTitleCase") =>
          /\ wordLists' = wordLists
          /\ wordLists' = ConstructorWordLists
          /\ styleGuide' = styleGuide
          /\ nlp' = nlp]_vars

\* a conversion after the style was changed and the tagger loaded, the tagger
\* failing
C9_Witness ==
    /\ Converted
    /\ styleGuide = "MLA"
    /\ nlp = "compromise"
    /\ nlpRun.throws
    /\ titleCased # <<>>

(***************************************************************************)
(* C10.  A word classified as a preposition, where the classification      *)
(* decides (not the first word, not a forced last word), is lowercased     *)
(* under AMA, AP, APA iff it has at most 3 characters, under Bluebook,     *)
(* Chicago, Wikipedia iff it has at most 4, always under MLA; under New    *)
(* York Times it is lowercased if on the lowercase list, capitalized if on *)
(* the capitalize list, else capitalized iff it has at least 4 characters. *)
(***************************************************************************)
\* the casing of word token i is left to the grammatical function
DecidedByRules(i) ==
    /\ i \in WordIndexes
    /\ i # FirstWordIndex
    /\ i # LastWordIndex \/ style \in {"AMA", "APA", "Bluebook"}

C10_PrepositionRule ==
    Converted =>
        \A i \in WordIndexes :
            (DecidedByRules(i) /\ tokens[i].grammaticalFunction = "preposition") =>
                LET word == tokens[i].word
                    lower == toLowerCase(word)
                    upper == capitalize(word)
                    n == Len(word)
                IN  /\ style \in {"AMA", "AP", "APA"} =>
                          result[i] = IF n <= 3 THEN lower ELSE upper
                    /\ style \in {"Bluebook", "Chicago", "Wikipedia"} =>
                          result[i] = IF n <= 4 THEN lower ELSE upper
                    /\ style = "MLA" => result[i] = lower
                    /\ style = "New York Times" =>
                          result[i] = IF lower \in Ctor_nytLowercaseWords THEN lower
                                      ELSE IF lower \in Ctor_nytCapitalizeWords THEN upper
                                      ELSE IF n >= 4 THEN upper ELSE lower

\* "x from x" under AP, "from" tagged as a preposition: 4 letters, capitalized
C10_Witness ==
    /\ Converted
    /\ style = "AP"
    /\ text = <<"x", " ", "f", "r", "o", "m", " ", "x">>
    /\ tokens[3].grammaticalFunction = "preposition"
    /\ result[3] = <<"F", "r", "o", "m">>

(***************************************************************************)
(* C11.  The preposition length rule is the same on both paths: in each of *)
(* the eight styles a word of the preposition lists that is neither first  *)
(* nor last gets the same casing from the static fallback (no grammatical  *)
(* function) as from applyPrepositionRules (classified as a preposition).  *)
(* Refuted as stated: the static AP rule capitalizes "to", and the static  *)
(* New York Times rule capitalizes a word of at most 3 characters that is  *)
(* on neither New York Times list, where applyPrepositionRules lowercases. *)
(***************************************************************************)
\* word token i is neither the first nor the last word
Middle(i) ==
    /\ i \in WordIndexes
    /\ i # FirstWordIndex
    /\ i # LastWordIndex

ListedPreposition(lower) ==
    lower \in Ctor_prepositions1 \cup Ctor_prepositions2 \cup Ctor_prepositions3
              \cup Ctor_prepositions4 \cup Ctor_prepositions5Plus

\* the original statement: no exception
C11_SamePrepositionRuleOnBothPaths ==
    (Converted /\ style \in KnownStyles) =>
        \A i \in WordIndexes :
            (Middle(i) /\ ListedPreposition(toLowerCase(tokens[i].word))) =>
                LET word == tokens[i].word
                    lower == toLowerCase(word)
                    fn == tokens[i].grammaticalFunction
                IN  /\ fn = "preposition" => result[i] = UntaggedResult[i]
                    /\ fn = "null" => result[i] = applyPrepositionRules(word, lower, style)

\* the words on which the two paths differ
StaticQuirk(lower) ==
    \/ style = "AP" /\ lower = <<"t", "o">>
    \/ /\ style = "New York Times"
       /\ Len(lower) <= 3
       /\ lower \notin Ctor_nytLowercaseWords \cup Ctor_nytCapitalizeWords

\* amended: the two paths agree except on "to" under AP and, under New York
\* Times, on the listed prepositions of at most 3 characters that are on
\* neither New York Times list (v, per, pro, bar, qua, mid); those the static
\* fallback capitalizes and applyPrepositionRules lowercases
C11_SamePrepositionRuleButQuirks ==
    (Converted /\ style \in KnownStyles) =>
        \A i \in WordIndexes :
            (Middle(i) /\ ListedPreposition(toLowerCase(tokens[i].word))) =>
                LET word == tokens[i].word
                    lower == toLowerCase(word)
                    fn == tokens[i].grammaticalFunction
                IN  IF StaticQuirk(lower)
                    THEN /\ fn = "preposition" =>
                               result[i] = lower /\ UntaggedResult[i] = capitalize(word)
                         /\ fn = "null" =>
                               /\ result[i] = capitalize(word)
                               /\ applyPrepositionRules(word, lower, style) = lower
                    ELSE /\ fn = "preposition" => result[i] = UntaggedResult[i]
                         /\ fn = "null" =>
                               result[i] = applyPrepositionRules(word, lower, style)

\* "x over x" under Chicago, "over" classified as a preposition: lowercase on
\* both paths
C11_Witness ==
    /\ Converted
    /\ style = "Chicago"
    /\ text = <<"x", " ", "o", "v", "e", "r", " ", "x">>
    /\ tokens[3].grammaticalFunction = "preposition"
    /\ result[3] = <<"o", "v", "e", "r">>
    /\ UntaggedResult[3] = <<"o", "v", "e", "r">>

(***************************************************************************)
(* C12.  Chicago static fallback: a word that is neither first nor last    *)
(* and has no grammatical function is lowercased if it is an article, one  *)
(* of and/but/for/nor/or, "as", "to", or a listed preposition of at most 4 *)
(* letters; every other word, "yet", "so" and the listed prepositions of 5 *)
(* or more letters included, is emitted as capitalize(word).               *)
(***************************************************************************)
\* word token i is cased by the static fallback
Static(i) == Middle(i) /\ tokens[i].grammaticalFunction = "null"

C12_ChicagoStatic ==
    (Converted /\ style = "Chicago") =>
        \A i \in WordIndexes :
            Static(i) =>
                LET word == tokens[i].word
                    lower == toLowerCase(word)
                    lowercased ==
                        \/ lower \in Ctor_articles
                        \/ lower \in {<<"a", "n", "d">>, <<"b", "u", "t">>, <<"f", "o", "r">>,
                                      <<"n", "o", "r">>, <<"o", "r">>}
                        \/ lower \in {<<"a", "s">>, <<"t", "o">>}
                        \/ ListedPreposition(lower) /\ Len(word) <= 4
                IN  /\ result[i] = IF lowercased THEN lower ELSE capitalize(word)
                    /\ lower \in {<<"y", "e", "t">>, <<"s", "o">>} =>
                          result[i] = capitalize(word)
                    /\ (ListedPreposition(lower) /\ Len(word) >= 5) =>
                          result[i] = capitalize(word)

\* "x yet x" without tagger under Chicago
C12_Witness ==
    /\ Converted
    /\ style = "Chicago"
    /\ text = <<"x", " ", "y", "e", "t", " ", "x">>
    /\ Static(3)
    /\ result[3] = <<"Y", "e", "t">>

(***************************************************************************)
(* C13.  MLA static fallback: a word that is neither first nor last and    *)
(* has no grammatical function is lowercased if it is on the preposition   *)
(* lists (whatever its length), an article, one of the seven coordinating  *)
(* conjunctions or "to", and capitalized otherwise.  A listed preposition  *)
(* of 5 or more letters is lowercase under MLA and capitalized under       *)
(* Chicago for the same input.                                             *)
(***************************************************************************)
C13_MlaStatic ==
    (Converted /\ style \in {"MLA", "Chicago"}) =>
        \A i \in WordIndexes :
            Static(i) =>
                LET word == tokens[i].word
                    lower == toLowerCase(word)
                    lowercased ==
                        \/ ListedPreposition(lower)
                        \/ lower \in Ctor_articles
                        \/ lower \in Ctor_coordinatingConjunctions
                        \/ lower = <<"t", "o">>
                IN  /\ style = "MLA" =>
                          result[i] = IF lowercased THEN lower ELSE capitalize(word)
                    /\ (ListedPreposition(lower) /\ Len(word) >= 5) =>
                          /\ result[i] = IF style = "MLA" THEN lower ELSE capitalize(word)
                          /\ resultOf(tokens, "MLA")[i] = lower
                          /\ resultOf(tokens, "Chicago")[i] = capitalize(word)

\* "x beyond x" without tagger under MLA
C13_Witness ==
    /\ Converted
    /\ style = "MLA"
    /\ text = <<"x", " ", "b", "e", "y", "o", "n", "d", " ", "x">>
    /\ Static(3)
    /\ result[3] = <<"b", "e", "y", "o", "n", "d">>
    /\ resultOf(tokens, "Chicago")[3] = <<"B", "e", "y", "o", "n", "d">>

(***************************************************************************)
(* C14.  New York Times static fallback: a word that is neither first nor  *)
(* last and has no grammatical function is capitalized if it has 4 or more *)
(* characters; a shorter word is capitalized if it is on the capitalize    *)
(* list, lowercased if it is on the lowercase list, and capitalized        *)
(* otherwise.  No word is on both lists.                                   *)
(***************************************************************************)
C14_NytStatic ==
    /\ nytLowercaseWords \cap nytCapitalizeWords = {}
    /\ nytCapitalizeWords =
          {<<"n", "o">>, <<"n", "o", "r">>, <<"n", "o", "t">>, <<"o", "f", "f">>,
           <<"o", "u", "t">>, <<"s", "o">>, <<"u", "p">>}
    /\ nytLowercaseWords =
          {<<"a">>, <<"a", "n", "d">>, <<"a", "s">>, <<"a", "t">>, <<"b", "u", "t">>,
           <<"b", "y">>, <<"e", "n">>, <<"f", "o", "r">>, <<"i", "f">>, <<"i", "n">>,
           <<"o", "f">>, <<"o", "n">>, <<"o", "r">>, <<"t", "h", "e">>, <<"t", "o">>,
           <<"v", ".">>, <<"v", "s", ".">>, <<"v", "i", "a">>}
    /\ (Converted /\ style = "New York Times") =>
          \A i \in WordIndexes :
              Static(i) =>
                  LET word == tokens[i].word
                      lower == toLowerCase(word)
                  IN  result[i] =
                          IF Len(word) >= 4 THEN capitalize(word)
                          ELSE IF lower \in Ctor_nytCapitalizeWords THEN capitalize(word)
                          ELSE IF lower \in Ctor_nytLowercaseWords THEN lower
                          ELSE capitalize(word)

\* "x per x" without tagger under New York Times: short, on neither list
C14_Witness ==
    /\ Converted
    /\ style = "New York Times"
    /\ text = <<"x", " ", "p", "e", "r", " ", "x">>
    /\ Static(3)
    /\ result[3] = <<"P", "e", "r">>

(***************************************************************************)
(* C15.  AP and APA static fallbacks: a word that is neither first nor     *)
(* last and has no grammatical function is capitalized if it has 4 or more *)
(* letters; a shorter word is lowercased iff it is an article, a           *)
(* coordinating or subordinating conjunction or a listed preposition.  The *)
(* two styles case every word alike except "to", which AP capitalizes and  *)
(* APA lowercases.                                                         *)
(***************************************************************************)
C15_ApAndApaStatic ==
    (Converted /\ style \in {"AP", "APA"}) =>
        \A i \in WordIndexes :
            Static(i) =>
                LET word == tokens[i].word
                    lower == toLowerCase(word)
                    listed ==
                        \/ lower \in Ctor_articles
                        \/ lower \in Ctor_coordinatingConjunctions
                        \/ lower \in Ctor_subordinatingConjunctions
                        \/ ListedPreposition(lower)
                IN  /\ result[i] =
                          IF Len(word) >= 4 THEN capitalize(word)
                          ELSE IF lower = <<"t", "o">>
                          THEN (IF style = "AP" THEN capitalize(word) ELSE lower)
                          ELSE IF listed THEN lower
                          ELSE capitalize(word)
                    /\ lower # <<"t", "o">> =>
                          resultOf(tokens, "AP")[i] = resultOf(tokens, "APA")[i]
                    /\ lower = <<"t", "o">> =>
                          /\ resultOf(tokens, "AP")[i] = capitalize(word)
                          /\ resultOf(tokens, "APA")[i] = lower

\* "x to x" without tagger under AP
C15_Witness ==
    /\ Converted
    /\ style = "AP"
    /\ text = <<"x", " ", "t", "o", " ", "x">>
    /\ Static(3)
    /\ result[3] = <<"T", "o">>
    /\ resultOf(tokens, "APA")[3] = <<"t", "o">>

(***************************************************************************)
(* C16.  Bluebook static fallback: a word that is neither first nor last   *)
(* and has no grammatical function is lowercased iff it is an article, one *)
(* of the seven coordinating conjunctions or a listed preposition of at    *)
(* most 4 letters.  Every word of the subordinating list, "as" and "if"    *)
(* included, is capitalized; Chicago lowercases "as".                      *)
(***************************************************************************)
C16_BluebookStatic ==
    (Converted /\ style = "Bluebook") =>
        \A i \in WordIndexes :
            Static(i) =>
                LET word == tokens[i].word
                    lower == toLowerCase(word)
                    lowercased ==
                        \/ lower \in Ctor_articles
                        \/ lower \in Ctor_coordinatingConjunctions
                        \/ ListedPreposition(lower) /\ Len(word) <= 4
                IN  /\ result[i] = IF lowercased THEN lower ELSE capitalize(word)
                    /\ lower \in Ctor_subordinatingConjunctions =>
                          result[i] = capitalize(word)
                    /\ lower = <<"a", "s">> => resultOf(tokens, "Chicago")[i] = lower

\* "x as x" without tagger under Bluebook
C16_Witness ==
    /\ Converted
    /\ style = "Bluebook"
    /\ text = <<"x", " ", "a", "s", " ", "x">>
    /\ Static(3)
    /\ result[3] = <<"A", "s">>

(***************************************************************************)
(* C17.  A known grammatical function overrides the static word lists for  *)
(* a word that is neither first nor last: verb, noun, adjective, adverb    *)
(* and pronoun are emitted as capitalize(word) in every style, even for a  *)
(* word of a lowercase list such as "up" or "a"; article is lowercased in  *)
(* every style; infinitive ("to" before a verb) is capitalized under AP    *)
(* and lowercased under every other style.                                 *)
(***************************************************************************)
C17_FunctionOverridesLists ==
    Converted =>
        \A i \in WordIndexes :
            Middle(i) =>
                LET word == tokens[i].word
                    lower == toLowerCase(word)
                    fn == tokens[i].grammaticalFunction
                IN  /\ fn \in {"verb", "noun", "adjective", "adverb", "pronoun"} =>
                          result[i] = capitalize(word)
                    /\ fn = "article" => result[i] = lower
                    /\ fn = "infinitive" =>
                          /\ lower = <<"t", "o">>
                          /\ result[i] = IF style = "AP" THEN capitalize(word) ELSE lower

\* "x up x" under Chicago, "up" classified as an adverb: the static rule
\* would lowercase it
C17_Witness ==
    /\ Converted
    /\ style = "Chicago"
    /\ text = <<"x", " ", "u", "p", " ", "x">>
    /\ tokens[3].grammaticalFunction = "adverb"
    /\ result[3] = <<"U", "p">>
    /\ UntaggedResult[3] = <<"u", "p">>

(***************************************************************************)
(* C18.  A word that is neither first nor last and is classified as a      *)
(* conjunction: one of the seven coordinating conjunctions is lowercased,  *)
(* except "yet" and "so" under Chicago and "so" and "nor" under New York   *)
(* Times, which are capitalized; a word of the subordinating list is       *)
(* capitalized under AMA, Bluebook, Chicago, MLA and Wikipedia (Chicago    *)
(* still lowercases "as") and, under AP, APA and New York Times, is        *)
(* lowercased iff it has at most 3 characters; a conjunction on neither    *)
(* list gets no verdict and is cased by the static fallback of the style.  *)
(***************************************************************************)
C18_ConjunctionRule ==
    (Converted /\ style \in KnownStyles) =>
        \A i \in WordIndexes :
            (Middle(i) /\ tokens[i].grammaticalFunction = "conjunction") =>
                LET word == tokens[i].word
                    lower == toLowerCase(word)
                    upper == capitalize(word)
                IN  IF lower \in Ctor_coordinatingConjunctions
                    THEN result[i] =
                            IF style = "Chicago" /\ lower \in {<<"y", "e", "t">>, <<"s", "o">>}
                            THEN upper
                            ELSE IF style = "New York Times"
                                    /\ lower \in {<<"s", "o">>, <<"n", "o", "r">>}
                            THEN upper
                            ELSE lower
                    ELSE IF lower \in Ctor_subordinatingConjunctions
                    THEN result[i] =
                            IF style \in {"AMA", "Bluebook", "Chicago", "MLA", "Wikipedia"}
                            THEN (IF style = "Chicago" /\ lower = <<"a", "s">>
                                  THEN lower ELSE upper)
                            ELSE IF Len(word) <= 3 THEN lower ELSE upper
                    ELSE /\ applyNLPAwareRules(word, lower, "conjunction",
                                               tokens[i].posTag, style) = NoVerdict
                         /\ result[i] = UntaggedResult[i]

\* "x as x" under Chicago, "as" classified as a conjunction
C18_Witness ==
    /\ Converted
    /\ style = "Chicago"
    /\ text = <<"x", " ", "a", "s", " ", "x">>
    /\ tokens[3].grammaticalFunction = "conjunction"
    /\ result[3] = <<"a", "s">>

(***************************************************************************)
(* C19.  capitalize(word) is the word with its first character uppercased  *)
(* and every other character lowercased, so that inner capitals are lost   *)
(* ("McDonald" becomes "Mcdonald"); capitalize("") is ""; the result has   *)
(* the length of the word, and capitalizing it again changes nothing.      *)
(* Refuted: the upper case of the ligature U+FB01 is the two characters    *)
(* FI, so the result is longer and a second application lowercases the I.  *)
(***************************************************************************)
C19_Capitalize ==
    Called =>
        /\ capitalize(<<>>) = <<>>
        /\ \A i \in WordIndexes :
              LET word == tokens[i].word
                  capitalized == capitalize(word)
              IN  /\ capitalized = toUpperCase(<<word[1]>>) \o toLowerCase(Tail(word))
                  /\ i = FirstWordIndex => result[i] = capitalized
                  /\ word = <<"M", "c", "D", "o", "n", "a", "l", "d">> =>
                        capitalized = <<"M", "c", "d", "o", "n", "a", "l", "d">>
                  /\ Len(capitalized) = Len(word)
                  /\ capitalize(capitalized) = capitalized

\* what does hold: the same on words that do not start with such a character
C19_HoldsWithoutSpecialCasing ==
    Called =>
        /\ capitalize(<<>>) = <<>>
        /\ \A i \in WordIndexes :
              LET word == tokens[i].word
                  capitalized == capitalize(word)
              IN  word[1] # "U+FB01" =>
                      /\ i = FirstWordIndex => result[i] = capitalized
                      /\ word = <<"M", "c", "D", "o", "n", "a", "l", "d">> =>
                            capitalized = <<"M", "c", "d", "o", "n", "a", "l", "d">>
                      /\ Len(capitalized) = Len(word)
                      /\ \A k \in 2..Len(word) : <<capitalized[k]>> = toLowerCaseChar(word[k])
                      /\ capitalize(capitalized) = capitalized

(***************************************************************************)
(* C20.  In any sequence of enable() and disable() calls on a module,      *)
(* onEnable is invoked only in a step that takes the module from disabled  *)
(* to enabled and onDisable only in a step that takes it from enabled to   *)
(* disabled, and every such step invokes the hook: the invocations         *)
(* alternate strictly, starting with onEnable.  enable() on an enabled     *)
(* module and disable() on a disabled module invoke nothing and leave the  *)
(* flag as it is.                                                          *)
(***************************************************************************)
\* the hooks invoked on m so far are onEnable, onDisable, onEnable, ...
Alternates(m) ==
    \A k \in 1..Len(hooks[m]) :
        hooks[m][k] = IF k % 2 = 1 THEN "onEnable" ELSE "onDisable"

C20_HooksAlternate ==
    /\ [](\A m \in ModuleIds :
             /\ Alternates(m)
             /\ enabled[m] <=> (Len(hooks[m]) % 2 = 1))
    /\ [][\A m \in ModuleIds :
             /\ hooks'[m] # hooks[m] =>
                   \/ /\ hooks'[m] = Append(hooks[m], "onEnable")
                      /\ op' = "enable" /\ moduleId' = m
                      /\ ~enabled[m] /\ enabled'[m]
                   \/ /\ hooks'[m] = Append(hooks[m], "onDisable")
                      /\ op' = "disable" /\ moduleId' = m
                      /\ enabled[m] /\ ~enabled'[m]
             /\ enabled'[m] # enabled[m] => hooks'[m] # hooks[m]
             /\ (op = "none" /\ op' = "enable" /\ moduleId' = m /\ enabled[m]) =>
                   enabled'[m] /\ hooks'[m] = hooks[m]
             /\ (op = "none" /\ op' = "disable" /\ moduleId' = m /\ ~enabled[m]) =>
                   ~enabled'[m] /\ hooks'[m] = hooks[m]]_vars

\* a module enabled, disabled and enabled again, while disable() is called on
\* a module that was never enabled
C20_Witness ==
    /\ op = "disable"
    /\ moduleId = "example-module"
    /\ ~enabled["example-module"]
    /\ hooks["example-module"] = <<>>
    /\ enabled["note-statistics"]
    /\ hooks["note-statistics"] = <<"onEnable", "onDisable", "onEnable">>

(***************************************************************************)
(* C23.  A hyphenated compound such as 'state-of-the-art' reaches the rule *)
(* engine as one word token that still contains its hyphens: whenever a    *)
(* hyphen of the text stands between two word characters, some word token  *)
(* contains a hyphen (and applyStyleRules takes its hyphenation branch).   *)
(***************************************************************************)
\* a hyphen of the text with a character other than whitespace or a dash on
\* both sides
InnerHyphens ==
    {k \in 2..(Len(text) - 1) :
        /\ text[k] = "-"
        /\ text[k - 1] \notin Whitespace \cup {"-", "U+2014", "U+2013"}
        /\ text[k + 1] \notin Whitespace \cup {"-", "U+2014", "U+2013"}}

C23_CompoundIsOneToken ==
    (Called /\ InnerHyphens # {}) =>
        \E i \in WordIndexes : includes(tokens[i].word, "-")

\* what does hold: no word token contains a hyphen, the compound arrives as
\* one word token per segment
C23_NoTokenHasHyphen ==
    Called => \A i \in WordIndexes : ~includes(tokens[i].word, "-")

(***************************************************************************)
(* C26.  On a text with no word character, made of punctuation and         *)
(* whitespace only ('!!!', '... ?'), tokenize returns separator tokens     *)
(* only: no word token, so no token is a first or a last word, and         *)
(* toTitleCase returns the text unchanged.                                 *)
(***************************************************************************)
Punctuation == {"!", ".", "?", ":"}

PunctuationOnly ==
    /\ \A k \in 1..Len(text) : text[k] \in Punctuation \cup Whitespace
    /\ \E k \in 1..Len(text) : text[k] \in Punctuation

C26_PunctuationIsSeparator ==
    (Called /\ PunctuationOnly) =>
        /\ WordIndexes = {}
        /\ titleCased = text

\* what does hold: the text is returned unchanged, though as word tokens
C26_PunctuationUnchanged ==
    (Called /\ PunctuationOnly) =>
        /\ titleCased = text
        /\ WordIndexes # {}
        /\ tokens[FirstWordIndex].isFirstWord
        /\ tokens[LastWordIndex].isLastWord

(***************************************************************************)
(* C27.  Word tokens and tagger terms are paired by index only: the k-th   *)
(* word token takes its grammatical function from the tagger's k-th term   *)
(* and from no other term, and when the tagger yields N terms for more     *)
(* than N words every word token from the (N+1)-th on has no grammatical   *)
(* function and is cased by the static rules.                              *)
(***************************************************************************)
\* the function the k-th word gets from its own term when term.next() is next
OwnFunction(k, next) ==
    LET tag == getPOSTag(TermOf(k))
        fn == determineGrammaticalFunction(tokens[TokenOfWord(k)].word, TermOf(k), next, tag)
    IN  IF tag = Thrown \/ fn = Thrown THEN "null" ELSE fn

\* as claimed: no term but the k-th has a say
C27_OwnTermOnly ==
    (Converted /\ nlp # "null" /\ ~nlpRun.throws) =>
        \A k \in 1..Cardinality(WordIndexes) :
            LET i == TokenOfWord(k) IN
            IF k > Len(nlpRun.terms)
            THEN tokens[i].grammaticalFunction = "null" /\ result[i] = UntaggedResult[i]
            ELSE tokens[i].grammaticalFunction = OwnFunction(k, NoTerm)

\* amended: the word 'to' also consults the term after its own
C27_OwnTermButInfinitive ==
    (Converted /\ nlp # "null" /\ ~nlpRun.throws) =>
        \A k \in 1..Cardinality(WordIndexes) :
            LET i == TokenOfWord(k) IN
            IF k > Len(nlpRun.terms)
            THEN tokens[i].grammaticalFunction = "null" /\ result[i] = UntaggedResult[i]
            ELSE IF toLowerCase(tokens[i].word) = <<"t", "o">>
            THEN tokens[i].grammaticalFunction = OwnFunction(k, TermAfter(k))
            ELSE tokens[i].grammaticalFunction = OwnFunction(k, NoTerm)

\* two terms for three words: the first two words have the functions of
\* their own terms, the third has none
C27_Witness ==
    /\ Converted
    /\ ~nlpRun.throws
    /\ Cardinality(WordIndexes) = 3
    /\ Len(nlpRun.terms) = 2
    /\ TermOf(1).tags = {"Verb"}
    /\ tokens[TokenOfWord(1)].grammaticalFunction = "verb"
    /\ tokens[TokenOfWord(2)].grammaticalFunction = "noun"
    /\ result[TokenOfWord(2)] # UntaggedResult[TokenOfWord(2)]
    /\ tokens[TokenOfWord(3)].grammaticalFunction = "null"

(***************************************************************************)
(* C25.  With a tagger, the single letter 'a' is classified as a noun if   *)
(* the tagger tags it as a noun or flags it as an acronym, and as an       *)
(* article in every other case, whatever other tag the tagger gives it,    *)
(* or no tag at all.                                                       *)
(***************************************************************************)
\* the word tokens 'a' / 'A' that have a term, by their index among the words
SingleLetterAs ==
    {k \in 1..Cardinality(WordIndexes) :
        /\ k <= Len(nlpRun.terms)
        /\ toLowerCase(tokens[TokenOfWord(k)].word) = <<"a">>
        /\ TermOf(k).throws # "has"}

\* the tagger makes the k-th word a noun
TaggedNounOrAcronym(k) ==
    getPOSTag(TermOf(k)) = "noun" \/ "Acronym" \in TermOf(k).tags

\* as claimed
C25_ArticleByDefault ==
    (Converted /\ nlp # "null" /\ ~nlpRun.throws) =>
        \A k \in SingleLetterAs :
            tokens[TokenOfWord(k)].grammaticalFunction =
                IF TaggedNounOrAcronym(k) THEN "noun" ELSE "article"

\* amended: in every other case the function is the tag getPOSTag found
C25_NounOrOwnTag ==
    (Converted /\ nlp # "null" /\ ~nlpRun.throws) =>
        \A k \in SingleLetterAs :
            tokens[TokenOfWord(k)].grammaticalFunction =
                IF TaggedNounOrAcronym(k) THEN "noun" ELSE getPOSTag(TermOf(k))

\* 'a' flagged as an acronym and tagged a verb is a noun, capitalized in
\* the middle of a Chicago title
C25_Witness ==
    /\ Converted
    /\ styleGuide = "Chicago"
    /\ text = <<"x", " ", "a", " ", "x">>
    /\ Len(nlpRun.terms) = 3
    /\ TermOf(2).tags = {"Acronym", "Verb"}
    /\ tokens[3].posTag = "verb"
    /\ tokens[3].grammaticalFunction = "noun"
    /\ result[3] = <<"A">>

(***************************************************************************)
(* C24.  In a compound handled by handleHyphenatedWord under Chicago or    *)
(* MLA, a segment after the first is lowercased iff it is an article, a    *)
(* coordinating conjunction or a listed preposition whose length qualifies *)
(* under the style's preposition rule (at most 4 letters for Chicago, any  *)
(* length for MLA); every other segment is capitalize(segment), and the    *)
(* first segment of the first word of the text is always capitalized.      *)
(***************************************************************************)
Hyphenated == op = "handleHyphenatedWord"

\* the segment is an article or a coordinating conjunction
ArticleOrCoordinating(lower) ==
    lower \in Ctor_articles \cup Ctor_coordinatingConjunctions

\* as claimed
C24_QualifyingPrepositions ==
    (Hyphenated /\ style \in {"Chicago", "MLA"}) =>
        /\ Len(result) = Len(split(text))
        /\ titleCased = join(result)
        /\ \A i \in 1..Len(result) :
              LET part == split(text)[i]
                  lower == toLowerCase(part)
                  qualifies ==
                      \/ ArticleOrCoordinating(lower)
                      \/ ListedPreposition(lower) /\ (style = "Chicago" => Len(lower) <= 4)
              IN  result[i] = IF i > 1 /\ qualifies THEN lower ELSE capitalize(part)

\* amended: a listed preposition of any length under both styles, and under
\* MLA the first segment of a word that is not the first is treated as the
\* later segments are
C24_AnyPreposition ==
    (Hyphenated /\ style \in {"Chicago", "MLA"}) =>
        /\ Len(result) = Len(split(text))
        /\ titleCased = join(result)
        /\ \A i \in 1..Len(result) :
              LET part == split(text)[i]
                  lower == toLowerCase(part)
                  lowercased == ArticleOrCoordinating(lower) \/ ListedPreposition(lower)
                  exempt == i = 1 /\ (tokens[1].isFirstWord \/ style = "Chicago")
              IN  result[i] = IF lowercased /\ ~exempt THEN lower ELSE capitalize(part)

\* a compound that is not the first word, under MLA
C24_Witness ==
    /\ Hyphenated
    /\ style = "MLA"
    /\ ~tokens[1].isFirstWord
    /\ text = <<"o", "f", "-", "b", "e", "y", "o", "n", "d", "-", "A", "r", "t">>
    /\ titleCased = <<"o", "f", "-", "b", "e", "y", "o", "n", "d", "-", "A", "r", "t">>

(***************************************************************************)
(* C21.  Module settings are isolated per module id: saveSettings(s) on a  *)
(* module whose id is X sets moduleSettings[X] to s and leaves             *)
(* moduleSettings[Y] of every other id Y and enabledModules as they were;  *)
(* getSettings then returns s for X, and for an id never saved it returns  *)
(* an empty object.                                                        *)
(***************************************************************************)
C21_SettingsPerModule ==
    /\ [](\A id \in PluginModuleIds :
             id \notin DOMAIN settings.moduleSettings => getSettings(id) = {})
    /\ [][\A X \in PluginModuleIds, s \in SettingsObjects :
             (op = "none" /\ saveSettings(X, s)) =>
                 /\ DOMAIN settings'.moduleSettings = DOMAIN settings.moduleSettings \cup {X}
                 /\ settings'.moduleSettings[X] = s
                 /\ getSettings(X)' = s
                 /\ \A Y \in DOMAIN settings.moduleSettings \ {X} :
                       /\ settings'.moduleSettings[Y] = settings.moduleSettings[Y]
                       /\ getSettings(Y)' = getSettings(Y)
                 /\ settings'.enabledModules = settings.enabledModules]_vars

\* example-module has saved its settings; those of note-statistics and the
\* enabled modules are as loaded, and getSettings of a third id is empty
C21_Witness ==
    /\ op = "saveSettings"
    /\ moduleId = "example-module"
    /\ getSettings("example-module") = {<<"exampleValue", "b">>, <<"sortMode", "c">>}
    /\ "note-statistics" \in DOMAIN settings.moduleSettings
    /\ getSettings("note-statistics") = {}
    /\ "source-note-sorter" \notin DOMAIN settings.moduleSettings
    /\ getSettings("source-note-sorter") = {}
    /\ \E id \in DOMAIN settings.enabledModules : settings.enabledModules[id]

(***************************************************************************)
(* C30.  After any sequence of register and unregister calls, including    *)
(* the registration of two modules with the same id, moduleOrder lists     *)
(* exactly the keys of the modules map, each once, so that getAllModules   *)
(* returns every registered module once and never undefined or a           *)
(* duplicate; and no module instance that is no longer in the map is left  *)
(* enabled.                                                                *)
(***************************************************************************)
\* the instances the map refers to
RegisteredInstances == {modules[id] : id \in DOMAIN modules}

C30_OrderListsModules ==
    /\ {moduleOrder[k] : k \in 1..Len(moduleOrder)} = DOMAIN modules
    /\ Len(moduleOrder) = Cardinality(DOMAIN modules)
    /\ {getAllModules[k] : k \in 1..Len(moduleOrder)} = RegisteredInstances
    /\ \A k \in 1..Len(moduleOrder) :
          /\ getAllModules[k] # undefined
          /\ \A j \in 1..Len(moduleOrder) : getAllModules[j] = getAllModules[k] => j = k
    /\ \A m \in 1..Len(instances) : instances[m].enabled => m \in RegisteredInstances

\* what does hold: every registered module is listed in moduleOrder
C30_EveryModuleListed ==
    DOMAIN modules \subseteq {moduleOrder[k] : k \in 1..Len(moduleOrder)}

(***************************************************************************)
(* C28.  For any interleaving of registry.enableModule(id) and             *)
(* registry.disableModule(id) calls on the same module, once all the calls *)
(* have completed the module's enabled flag equals enabledModules[id].     *)
(***************************************************************************)
\* settings.enabledModules[id] is true
EnabledInSettings(id) ==
    id \in DOMAIN settings.enabledModules /\ settings.enabledModules[id]

\* no call is suspended and none has ended with a rejected promise
AllCompleted == pending = <<>> /\ rejected = {}

C28_FlagMatchesSetting ==
    AllCompleted =>
        \A id \in DOMAIN modules : instances[modules[id]].enabled = EnabledInSettings(id)

(***************************************************************************)
(* C22.  Modules are initialized from the saved settings: once             *)
(* initializeModules has completed, a registered module is enabled iff     *)
(* enabledModules[id] is true in the saved settings; a saved id with no    *)
(* registered module is skipped without error; and initialization does not *)
(* change enabledModules.                                                  *)
(***************************************************************************)
\* the step is one of initializeModules: it starts it, resumes it or ends it
InitializeStep ==
    /\ op = "none"
    /\ \E k \in 1..Len(pending) :
          /\ pending[k].kind \in {"onLayoutReady", "initializeModules"}
          /\ pending' # pending

C22_InitializedFromSettings ==
    /\ [](op = "initializeModules" =>
             \A id \in DOMAIN modules :
                 instances[modules[id]].enabled <=> EnabledInSettings(id))
    /\ [](rejected \subseteq DOMAIN modules)
    /\ [][InitializeStep => settings'.enabledModules = settings.enabledModules]_vars

\* initializeModules has completed: one module is enabled, one is left
\* disabled, and a saved id without module was passed over
C22_Witness ==
    /\ op = "initializeModules"
    /\ rejected = {}
    /\ DOMAIN modules = {"core-title-case", "example-module"}
    /\ instances[modules["core-title-case"]].enabled
    /\ ~instances[modules["example-module"]].enabled
    /\ settings.enabledModules =
          [id \in PluginModuleIds |-> id \in {"core-title-case", "note-statistics"}]

(***************************************************************************)
(* C29.  Reloading user modules preserves the enabled state: after         *)
(* loadUserModules completes, every core module (id starting with 'core-') *)
(* is still registered with its enabled flag unchanged, and every          *)
(* re-registered user module whose enabledModules[id] is true is enabled,  *)
(* so that module.enabled equals enabledModules[id] for every registered   *)
(* module.                                                                 *)
(***************************************************************************)
\* the step completes loadUserModules, no other call being suspended
ReloadCompletes ==
    /\ op = "none"
    /\ op' = "loadUserModules"
    /\ pending' = <<>>
    /\ rejected = {}

\* the user modules that step registers again
ReRegistered ==
    {id \in DOMAIN modules' :
        \E j \in 1..Len(pending[1].entries) : pending[1].entries[j] = id}

C29_ReloadedModulesEnabled ==
    [][ReloadCompletes =>
          \A id \in ReRegistered :
              EnabledInSettings(id) => instances'[modules'[id]].enabled]_vars

\* what does hold: a step of loadUserModules leaves every core module
\* registered, the same instance with the same flag, and every user module
\* it registers is disabled
C29_CoreModulesKept ==
    /\ [][(op = "none" /\ (loadUserModules \/ op' = "loadUserModules")) =>
             \A id \in DOMAIN modules :
                 startsWithCore(id) =>
                     /\ id \in DOMAIN modules'
                     /\ modules'[id] = modules[id]
                     /\ instances'[modules[id]] = instances[modules[id]]]_vars
    /\ [](op = "loadUserModules" =>
             \A id \in DOMAIN modules :
                 ~startsWithCore(id) => ~instances[modules[id]].enabled)

====
